---- MODULE Spec2Model ----
(***************************************************************************)
(* Model of backend/server.py (Magazyn ITS Kielce API): the document       *)
(* collections are the state, every request handler is one action.  A      *)
(* handler runs to completion inside its action (complete, non-interleaved *)
(* requests).                                                              *)
(***************************************************************************)
EXTENDS Naturals, Sequences, FiniteSets, TLC

VARIABLES
    users,           \* db.users
    user_sessions,   \* db.user_sessions
    activity_logs,   \* db.activity_logs, in insertion order
    devices,         \* db.devices
    installations,   \* db.installations
    device_returns,  \* db.device_returns
    now,             \* datetime.now(timezone.utc), in days
    tok_ctr,         \* number of tokens generate_token() has produced
    uid_ctr,         \* number of user ids produced
    ret_ctr,         \* number of return ids produced
    issued,          \* history: <<token, user_id>> for every login that succeeded
    tasks,           \* db.tasks
    messages,        \* db.messages
    backup_settings, \* db.backup_settings: no document, or the one document
    backup_logs,     \* db.backup_logs, in insertion order
    requests,        \* the requests in flight, each at its position in its handler
    resp             \* the response of the last request

vars == <<users, user_sessions, activity_logs, devices, installations,
          device_returns, now, tok_ctr, uid_ctr, ret_ctr, issued, tasks, messages,
          backup_settings, backup_logs, requests, resp>>

db == <<users, user_sessions, activity_logs, devices, installations, device_returns,
        tasks, messages, backup_settings, backup_logs>>

authvars == <<users, user_sessions, tok_ctr, uid_ctr, issued>>

devvars == <<devices, installations, device_returns, ret_ctr>>

othervars == <<tasks, messages, backup_settings, backup_logs, requests>>

----------------------------------------------------------------------------
(* Bounds of the model *)

MaxTokens == 3
MaxUsers == 2
MaxTime == 8
MaxDevices == 2
MaxReturns == 3
MaxRows == 3
MaxInstallations == 2
MaxLogs == 6
MaxBulk == 3
MaxScanReturns == 1
MaxTasks == 2
MaxRequests == 2
MaxStock == 4
MaxMessages == 1
MaxBackupLogs == 2

(* Program constants *)

SessionDays == 7
MinPasswordLen == 6

----------------------------------------------------------------------------
(* Values *)

\* Python None / an absent field, against Some(x) for a present value
\* the slots of the requests that run at the same time, and a free slot
RequestIds == 1..MaxRequests
Idle == [op |-> "idle", pc |-> "done"]

None == <<>>
Some(x) == <<x>>

NoToken == 0

NoUser == [user_id |-> 0, role |-> "none"]

UpperChars == <<"A", "B", "K", "Q", "W">>
LowerChars == <<"a", "b", "k", "q", "w">>

\* str.lower() and str.upper() on one character
LowerChar(c) ==
    IF \E i \in 1..Len(UpperChars) : UpperChars[i] = c
    THEN LowerChars[CHOOSE i \in 1..Len(UpperChars) : UpperChars[i] = c]
    ELSE c

UpperChar(c) ==
    IF \E i \in 1..Len(LowerChars) : LowerChars[i] = c
    THEN UpperChars[CHOOSE i \in 1..Len(LowerChars) : LowerChars[i] = c]
    ELSE c

Lower(s) == [i \in 1..Len(s) |-> LowerChar(s[i])]
Upper(s) == [i \in 1..Len(s) |-> UpperChar(s[i])]

\* the request inputs the model draws from
Emails == {<<"k">>, <<"K">>, <<"w">>}
AdminEmail == <<"k">>
AdminPassword == "kamil678@"
Passwords == {"kamil678@", "secret", "short"}
Roles == {"admin", "pracownik"}
RoleInputs == {"admin", "pracownik", "szef"}
TokenInputs == 0..MaxTokens
UserIds == 1..MaxUsers
TickSteps == {SessionDays, SessionDays + 1}

hash_password(password) == [sha256 |-> password]

\* the last request and its response; req holds the inputs of a scan
RespondTo(op, req, status, out) ==
    resp' = [op |-> op, req |-> req, status |-> status, out |-> out]

Respond(op, status, out) == RespondTo(op, None, status, out)

----------------------------------------------------------------------------
(* Activity logging helper *)

log_activity(user, action_type, device_serial) ==
    Append(activity_logs,
           [user_id |-> user.user_id, action_type |-> action_type,
            device_serial |-> device_serial])

----------------------------------------------------------------------------
(* Auth helpers *)

without_password_hash(u) ==
    [user_id |-> u.user_id, email |-> u.email, role |-> u.role,
     created_at |-> u.created_at, last_login_at |-> u.last_login_at]

\* a session counted as live at the instant it expires
session_expired_late(session) == session.expires_at < now

session_expired(session) == session.expires_at <= now

get_current_user(session_token) ==
    IF session_token = NoToken THEN NoUser
    ELSE IF ~\E s \in user_sessions : s.session_token = session_token THEN NoUser
    ELSE LET session == CHOOSE s \in user_sessions : s.session_token = session_token
         IN  IF session_expired(session) THEN NoUser
             ELSE IF \E u \in users : u.user_id = session.user_id
                  THEN without_password_hash(
                           CHOOSE u \in users : u.user_id = session.user_id)
                  ELSE NoUser

\* the status the dependency ends the request with, 200 when it lets it through
require_user(session_token) ==
    IF get_current_user(session_token) = NoUser THEN 401 ELSE 200

require_admin(session_token) ==
    IF require_user(session_token) # 200 THEN 401
    ELSE IF get_current_user(session_token).role # "admin" THEN 403
    ELSE 200

\* the inline guard of the backup endpoints
backup_guard(session_token) ==
    IF get_current_user(session_token) = NoUser
       \/ get_current_user(session_token).role # "admin"
    THEN 403 ELSE 200

----------------------------------------------------------------------------
(* Startup *)

create_default_admin ==
    {[user_id |-> 1, email |-> AdminEmail,
      password_hash |-> hash_password(AdminPassword), role |-> "admin",
      created_at |-> 0, last_login_at |-> None]}

Init ==
    /\ users = create_default_admin
    /\ user_sessions = {}
    /\ activity_logs = <<>>
    /\ devices = {}
    /\ tasks = {}
    /\ messages = {}
    /\ backup_settings = None
    /\ backup_logs = <<>>
    /\ requests = [r \in RequestIds |-> Idle]
    /\ installations = {}
    /\ device_returns = {}
    /\ now = 0
    /\ tok_ctr = 0
    /\ uid_ctr = 1
    /\ ret_ctr = 0
    /\ issued = {}
    /\ resp = [op |-> "startup", req |-> None, status |-> 200, out |-> None]

----------------------------------------------------------------------------
(* Auth endpoints *)

\* delete_many({"user_id": ...}) on the sessions
delete_sessions_of(user_id) == {s \in user_sessions : s.user_id # user_id}

\* a login that keeps the sessions it finds
login_purge_kept(user_id) == user_sessions

\* "Delete old sessions"
login_purge(user_id) == delete_sessions_of(user_id)

\* a login that accepts any password
login_password_matches_any(user, password) == TRUE

login_password_matches(user, password) ==
    user.password_hash = hash_password(password)

login(email, password) ==
    /\ tok_ctr < MaxTokens
    /\ LET found == {u \in users : u.email = Lower(email)} IN
       IF found = {}
       THEN /\ Respond("login", 401, None)
            /\ UNCHANGED <<authvars, activity_logs>>
       ELSE \E user \in found :
            IF ~login_password_matches(user, password)
            THEN /\ Respond("login", 401, None)
                 /\ UNCHANGED <<authvars, activity_logs>>
            ELSE LET session_token == tok_ctr + 1 IN
                 /\ tok_ctr' = session_token
                 /\ user_sessions' = login_purge(user.user_id) \cup
                        {[user_id |-> user.user_id,
                          session_token |-> session_token,
                          expires_at |-> now + SessionDays]}
                 /\ users' = (users \ {user}) \cup
                        {[user EXCEPT !.last_login_at = Some(now)]}
                 /\ activity_logs' = log_activity(user, "login", None)
                 /\ issued' = issued \cup {<<session_token, user.user_id>>}
                 /\ Respond("login", 200,
                            [user_id |-> user.user_id, email |-> user.email,
                             role |-> user.role, session_token |-> session_token])
                 /\ UNCHANGED uid_ctr
    /\ UNCHANGED <<devvars, now, othervars>>

get_me(session_token) ==
    /\ IF require_user(session_token) # 200
       THEN Respond("get_me", require_user(session_token), None)
       ELSE Respond("get_me", 200, get_current_user(session_token))
    /\ UNCHANGED <<authvars, activity_logs, devvars, now, othervars>>

logout(session_token) ==
    /\ user_sessions' =
           IF session_token # NoToken
           THEN {s \in user_sessions : s.session_token # session_token}
           ELSE user_sessions
    /\ Respond("logout", 200, None)
    /\ UNCHANGED <<users, tok_ctr, uid_ctr, issued, activity_logs, devvars, now, othervars>>

change_own_password(session_token, current_password, new_password) ==
    /\ IF require_user(session_token) # 200
       THEN /\ Respond("change_own_password", require_user(session_token), None)
            /\ UNCHANGED users
       ELSE IF Len(new_password) < MinPasswordLen
       THEN /\ Respond("change_own_password", 400, None)
            /\ UNCHANGED users
       ELSE LET user_doc == CHOOSE u \in users :
                               u.user_id = get_current_user(session_token).user_id
            IN  IF user_doc.password_hash # hash_password(current_password)
                THEN /\ Respond("change_own_password", 401, None)
                     /\ UNCHANGED users
                ELSE /\ users' = (users \ {user_doc}) \cup
                        {[user_doc EXCEPT !.password_hash = hash_password(new_password)]}
                     /\ Respond("change_own_password", 200, None)
    /\ UNCHANGED <<user_sessions, tok_ctr, uid_ctr, issued, activity_logs, devvars, now, othervars>>

----------------------------------------------------------------------------
(* User management (admin) *)

get_users(session_token) ==
    /\ IF require_admin(session_token) # 200
       THEN Respond("get_users", require_admin(session_token), None)
       ELSE Respond("get_users", 200, {without_password_hash(u) : u \in users})
    /\ UNCHANGED <<authvars, activity_logs, devvars, now, othervars>>

create_user(session_token, email, password, role) ==
    /\ uid_ctr < MaxUsers
    /\ IF require_admin(session_token) # 200
       THEN /\ Respond("create_user", require_admin(session_token), None)
            /\ UNCHANGED <<users, uid_ctr>>
       ELSE IF \E u \in users : u.email = Lower(email)
       THEN /\ Respond("create_user", 400, None)
            /\ UNCHANGED <<users, uid_ctr>>
       ELSE IF Len(password) < MinPasswordLen
       THEN /\ Respond("create_user", 400, None)
            /\ UNCHANGED <<users, uid_ctr>>
       ELSE IF role \notin {"admin", "pracownik"}
       THEN /\ Respond("create_user", 400, None)
            /\ UNCHANGED <<users, uid_ctr>>
       ELSE LET user_id == uid_ctr + 1 IN
            /\ uid_ctr' = user_id
            /\ users' = users \cup
                   {[user_id |-> user_id, email |-> Lower(email),
                     password_hash |-> hash_password(password), role |-> role,
                     created_at |-> now, last_login_at |-> None]}
            /\ Respond("create_user", 200,
                       [user_id |-> user_id, email |-> Lower(email), role |-> role])
    /\ UNCHANGED <<user_sessions, tok_ctr, issued, activity_logs, devvars, now, othervars>>

\* result.modified_count of update_one({"user_id": user_id}, {"$set": {field: value}}):
\* a matched document that already holds the value is not modified
users_modified_count(user_id, field, value) ==
    Cardinality({u \in users : u.user_id = user_id /\ u[field] # value})

users_set(user_id, field, value) ==
    {IF u.user_id = user_id THEN [u EXCEPT ![field] = value] ELSE u : u \in users}

update_user_role(session_token, user_id, new_role) ==
    /\ IF require_admin(session_token) # 200
       THEN /\ Respond("update_user_role", require_admin(session_token), None)
            /\ UNCHANGED users
       ELSE IF new_role \notin {"admin", "pracownik"}
       THEN /\ Respond("update_user_role", 400, None)
            /\ UNCHANGED users
       ELSE /\ users' = users_set(user_id, "role", new_role)
            /\ IF users_modified_count(user_id, "role", new_role) = 0
               THEN Respond("update_user_role", 404, None)
               ELSE Respond("update_user_role", 200, None)
    /\ UNCHANGED <<user_sessions, tok_ctr, uid_ctr, issued, activity_logs, devvars, now, othervars>>

reset_user_password(session_token, user_id, new_password) ==
    /\ IF require_admin(session_token) # 200
       THEN /\ Respond("reset_user_password", require_admin(session_token), None)
            /\ UNCHANGED <<users, user_sessions>>
       ELSE IF Len(new_password) < MinPasswordLen
       THEN /\ Respond("reset_user_password", 400, None)
            /\ UNCHANGED <<users, user_sessions>>
       ELSE /\ users' = users_set(user_id, "password_hash", hash_password(new_password))
            /\ IF users_modified_count(user_id, "password_hash",
                                       hash_password(new_password)) = 0
               THEN /\ Respond("reset_user_password", 404, None)
                    /\ UNCHANGED user_sessions
               ELSE /\ user_sessions' = delete_sessions_of(user_id)
                    /\ Respond("reset_user_password", 200, None)
    /\ UNCHANGED <<tok_ctr, uid_ctr, issued, activity_logs, devvars, now, othervars>>

delete_user(session_token, user_id) ==
    /\ IF require_admin(session_token) # 200
       THEN /\ Respond("delete_user", require_admin(session_token), None)
            /\ UNCHANGED <<users, user_sessions>>
       ELSE IF user_id = get_current_user(session_token).user_id
       THEN /\ Respond("delete_user", 400, None)
            /\ UNCHANGED <<users, user_sessions>>
       ELSE IF ~\E u \in users : u.user_id = user_id
       THEN /\ Respond("delete_user", 404, None)
            /\ UNCHANGED <<users, user_sessions>>
       ELSE /\ users' = {u \in users : u.user_id # user_id}
            /\ user_sessions' = delete_sessions_of(user_id)
            /\ Respond("delete_user", 200, None)
    /\ UNCHANGED <<tok_ctr, uid_ctr, issued, activity_logs, devvars, now, othervars>>

----------------------------------------------------------------------------
(* Backup settings: the guard of the backup endpoints *)

Placeholder == "********"

\* the settings returned while no document is stored; of the fields of the
\* document the model keeps the two passwords and what create_backup reads
default_backup_settings ==
    [smtp_host |-> "", smtp_password |-> "", email_enabled |-> FALSE,
     ftp_host |-> "", ftp_password |-> "", ftp_enabled |-> FALSE]

stored_backup_settings ==
    IF backup_settings = None THEN default_backup_settings ELSE backup_settings[1]

\* "Hide passwords in response"
hide_password(password) == IF password # "" THEN Placeholder ELSE password

get_backup_settings(session_token) ==
    /\ IF backup_guard(session_token) # 200
       THEN RespondTo("get_backup_settings", [session_token |-> session_token],
                      backup_guard(session_token), None)
       ELSE RespondTo("get_backup_settings", [session_token |-> session_token], 200,
                      [stored_backup_settings EXCEPT
                          !.smtp_password = hide_password(@),
                          !.ftp_password = hide_password(@)])
    /\ UNCHANGED <<authvars, activity_logs, devvars, now, othervars>>

\* data.get(key, default) on a body whose absent keys are None
body_get(field, default) == IF field = None THEN default ELSE field[1]

\* a password of the request stored as it is sent, placeholder included
posted_password_as_sent(sent, existing) == body_get(sent, "")

\* "Handle password fields - only update if not placeholder"
posted_password(sent, existing) ==
    IF body_get(sent, "") # "" /\ body_get(sent, "") # Placeholder THEN sent[1]
    ELSE IF existing # None /\ existing[1] # "" THEN existing[1]
    ELSE ""

update_backup_settings(session_token, data) ==
    LET existing(field) ==
            IF backup_settings = None THEN None ELSE Some(backup_settings[1][field])
        request == [session_token |-> session_token, data |-> data]
    IN
    /\ IF backup_guard(session_token) # 200
       THEN /\ RespondTo("update_backup_settings", request,
                         backup_guard(session_token), None)
            /\ UNCHANGED backup_settings
       ELSE /\ backup_settings' = Some(
                   [smtp_host |-> body_get(data.smtp_host, ""),
                    email_enabled |-> body_get(data.email_enabled, FALSE),
                    ftp_host |-> body_get(data.ftp_host, ""),
                    ftp_enabled |-> body_get(data.ftp_enabled, FALSE),
                    smtp_password |->
                        posted_password(data.smtp_password, existing("smtp_password")),
                    ftp_password |->
                        posted_password(data.ftp_password, existing("ftp_password"))])
            /\ RespondTo("update_backup_settings", request, 200, [status |-> "ok"])
    /\ UNCHANGED <<authvars, activity_logs, devvars, now, tasks, messages, backup_logs, requests>>

\* d days pass between two requests
Elapse(d) ==
    /\ now + d <= MaxTime
    /\ now' = now + d
    /\ Respond("tick", 200, None)
    /\ UNCHANGED <<authvars, activity_logs, devvars, othervars>>

Tick == \E d \in TickSteps : Elapse(d)

NextAuth ==
    \/ \E email \in Emails, password \in Passwords : login(email, password)
    \/ \E t \in TokenInputs : get_me(t)
    \/ \E t \in TokenInputs : logout(t)
    \/ \E t \in TokenInputs : get_users(t)
    \/ \E t \in TokenInputs, email \in Emails, password \in Passwords,
          role \in RoleInputs : create_user(t, email, password, role)
    \/ \E t \in TokenInputs, user_id \in UserIds, new_password \in Passwords :
          reset_user_password(t, user_id, new_password)
    \/ \E t \in TokenInputs, user_id \in UserIds : delete_user(t, user_id)
    \/ \E t \in TokenInputs : get_backup_settings(t)
    \/ Tick

SpecAuth == Init /\ [][NextAuth]_vars

----------------------------------------------------------------------------
(* Strings: a str is a sequence of characters *)

Whitespace == {" ", "\n", "\r"}

RECURSIVE LStrip(_)
LStrip(s) == IF s # <<>> /\ Head(s) \in Whitespace THEN LStrip(Tail(s)) ELSE s

RECURSIVE RStrip(_)
RStrip(s) ==
    IF s # <<>> /\ s[Len(s)] \in Whitespace THEN RStrip(SubSeq(s, 1, Len(s) - 1)) ELSE s

\* str.strip()
Strip(s) == RStrip(LStrip(s))

IsLineBreak(c) == c \in {"\r", "\n"}
NotLineBreak(c) == ~IsLineBreak(c)

\* x in y, for two str
IsSubstr(x, y) ==
    \E i \in 0..Len(y) : i + Len(x) <= Len(y) /\ SubSeq(y, i + 1, i + Len(x)) = x

\* truth value of an optional str: None and "" are false
Truthy(o) == o # None /\ o[1] # <<>>

\* {"$regex": "^code$", "$options": "i"} on a field holding the str x
\* (codes are letters, digits and blanks: no regex metacharacters)
RegexExactI(x, code) == Upper(x) = Upper(code)

\* {"$regex": code, "$options": "i"} on a field holding the str x
RegexContainsI(x, code) == IsSubstr(Upper(code), Upper(x))

----------------------------------------------------------------------------
(* Devices *)

DeviceCodes == {<<"a">>, <<"A", "b">>, <<"b">>}
SerialInputs == {None} \cup {Some(c) : c \in DeviceCodes}
BarcodeInputs == {None, Some(<<"b">>)}
QrInputs == {None, Some(<<"q">>)}
ReturnSerialInputs == {None, Some(<<"a">>), Some(<<"b">>)}
ReturnKindInputs == {<<"", "z awarii">>, <<"ONT", "">>, <<"ONT", "z awarii">>}
ScanCodes == DeviceCodes \cup
             {<<"A">>, <<"a", "b">>, <<"b", "a">>, <<" ", "b", "\n">>, <<"Q">>, <<"w">>}
DeviceNames == {<<"R">>}
SessionInputs == {NoToken, 1, 2}

\* the lookup by barcode in place of the serial
add_single_exists_by_barcode(numer_seryjny) ==
    \E d \in devices : d.kod_kreskowy = Some(numer_seryjny)

\* "Check if device already exists"
add_single_exists(numer_seryjny) ==
    \E d \in devices : d.numer_seryjny = numer_seryjny

add_single_device(session_token, nazwa, numer_seryjny, kod_kreskowy, kod_qr) ==
    /\ Cardinality(devices) < MaxDevices
    /\ IF require_admin(session_token) # 200
       THEN /\ Respond("add_single_device", require_admin(session_token), None)
            /\ UNCHANGED <<devices, activity_logs>>
       ELSE IF ~Truthy(numer_seryjny) /\ ~Truthy(kod_kreskowy)
       THEN /\ Respond("add_single_device", 400, "required")
            /\ UNCHANGED <<devices, activity_logs>>
       ELSE LET serial == IF ~Truthy(numer_seryjny) THEN kod_kreskowy[1]
                          ELSE numer_seryjny[1]
            IN  IF add_single_exists(serial)
                THEN /\ Respond("add_single_device", 400, "exists")
                     /\ UNCHANGED <<devices, activity_logs>>
                ELSE LET device ==
                           [device_id |-> Cardinality(devices) + 1,
                            nazwa |-> nazwa,
                            numer_seryjny |-> serial,
                            kod_kreskowy |-> IF Truthy(kod_kreskowy) THEN kod_kreskowy
                                             ELSE Some(serial),
                            kod_qr |-> kod_qr,
                            przypisany_do |-> None,
                            status |-> "dostepny",
                            added_manually |-> TRUE,
                            zainstalowany_przez |-> None,
                            adres_instalacji |-> None,
     returned_at |-> None, returned_by |-> None, damaged_by |-> None]
                     IN  /\ devices' = devices \cup {device}
                         /\ activity_logs' =
                               log_activity(get_current_user(session_token),
                                            "device_add", Some(serial))
                         /\ Respond("add_single_device", 200, device)
    /\ UNCHANGED <<authvars, installations, device_returns, ret_ctr, now, othervars>>

----------------------------------------------------------------------------
(* Device returns *)

Pending(r) == r.returned_to_warehouse # TRUE

add_device_return(session_token, device_serial, device_type, device_status) ==
    LET admin == get_current_user(session_token)
        request == [session_token |-> session_token, device_serial |-> device_serial,
                    device_type |-> device_type, device_status |-> device_status]
    IN
    /\ ret_ctr < MaxReturns
    /\ IF require_admin(session_token) # 200
       THEN /\ RespondTo("add_device_return", request, require_admin(session_token), None)
            /\ UNCHANGED <<device_returns, ret_ctr>>
       ELSE IF ~Truthy(device_serial) \/ device_type = "" \/ device_status = ""
       THEN /\ RespondTo("add_device_return", request, 400, "required")
            /\ UNCHANGED <<device_returns, ret_ctr>>
       ELSE IF \E r \in device_returns :
                  r.device_serial = device_serial[1] /\ Pending(r)
       THEN /\ RespondTo("add_device_return", request, 400, "exists")
            /\ UNCHANGED <<device_returns, ret_ctr>>
       ELSE LET return_entry ==
                   [return_id |-> ret_ctr + 1,
                    device_serial |-> device_serial[1],
                    device_type |-> device_type,
                    device_status |-> device_status,
                    scanned_at |-> now,
                    scanned_by |-> admin.user_id,
                    returned_to_warehouse |-> FALSE,
                    returned_at |-> None]
            IN  /\ ret_ctr' = ret_ctr + 1
                /\ device_returns' = device_returns \cup {return_entry}
                /\ RespondTo("add_device_return", request, 200, return_entry)
    /\ UNCHANGED <<authvars, activity_logs, devices, installations, now, othervars>>

\* an update_many over every entry, returned or not
mark_filter_all(r) == TRUE

\* {"returned_to_warehouse": {"$ne": True}}
mark_filter(r) == Pending(r)

mark_returns_as_returned(session_token) ==
    /\ IF require_admin(session_token) # 200
       THEN /\ RespondTo("mark_returns_as_returned", [session_token |-> session_token],
                         require_admin(session_token), None)
            /\ UNCHANGED device_returns
       ELSE /\ device_returns' =
                  {IF mark_filter(r)
                   THEN [r EXCEPT !.returned_to_warehouse = TRUE,
                                  !.returned_at = Some(now)]
                   ELSE r : r \in device_returns}
            /\ RespondTo("mark_returns_as_returned", [session_token |-> session_token], 200,
                         [count |-> Cardinality({r \in device_returns :
                                        /\ mark_filter(r)
                                        /\ [r EXCEPT !.returned_to_warehouse = TRUE,
                                                     !.returned_at = Some(now)] # r})])
    /\ UNCHANGED <<authvars, activity_logs, devices, installations, ret_ctr, now, othervars>>

----------------------------------------------------------------------------
(* Scan *)

clean_code(code) == SelectSeq(Strip(code), NotLineBreak)

\* "First check if device is in pending returns"
scan_in_returns(code) ==
    \E r \in device_returns : RegexExactI(r.device_serial, code) /\ Pending(r)

\* "First try exact match"
scan_exact(code) ==
    {d \in devices : \/ d.kod_kreskowy = Some(code)
                     \/ d.kod_qr = Some(code)
                     \/ d.numer_seryjny = code}

\* "Try case-insensitive match"
scan_case_insensitive(code) ==
    {d \in devices : \/ d.kod_kreskowy # None /\ RegexExactI(d.kod_kreskowy[1], code)
                     \/ d.kod_qr # None /\ RegexExactI(d.kod_qr[1], code)
                     \/ RegexExactI(d.numer_seryjny, code)}

\* "Try partial match on serial number (contains)"
scan_partial(code) == {d \in devices : RegexContainsI(d.numer_seryjny, code)}

\* the last stage looking at serials only
scan_contained_serial_only(code) ==
    {d \in devices :
        d.numer_seryjny # <<>> /\ IsSubstr(Upper(d.numer_seryjny), Upper(code))}

\* "Try if code contains the serial number"
scan_contained(code) ==
    {d \in devices :
        \/ d.numer_seryjny # <<>> /\ IsSubstr(Upper(d.numer_seryjny), Upper(code))
        \/ Truthy(d.kod_kreskowy) /\ IsSubstr(Upper(d.kod_kreskowy[1]), Upper(code))
        \/ Truthy(d.kod_qr) /\ IsSubstr(Upper(d.kod_qr[1]), Upper(code))}

\* the documents the four lookups can give: the first lookup that finds any
scan_candidates(code) ==
    IF scan_exact(code) # {} THEN scan_exact(code)
    ELSE IF scan_case_insensitive(code) # {} THEN scan_case_insensitive(code)
    ELSE IF scan_partial(code) # {} THEN scan_partial(code)
    ELSE scan_contained(code)

scan_respond(session_token, code, status, out) ==
    RespondTo("scan_device", [session_token |-> session_token, code |-> code],
              status, out)

scan_device(session_token, code) ==
    /\ IF require_user(session_token) # 200
       THEN scan_respond(session_token, code, require_user(session_token), None)
       ELSE IF scan_in_returns(clean_code(code))
       THEN scan_respond(session_token, code, 400, "in_returns")
       ELSE IF scan_candidates(clean_code(code)) = {}
       THEN scan_respond(session_token, code, 404, None)
       ELSE \E device \in scan_candidates(clean_code(code)) :
               IF get_current_user(session_token).role # "admin"
                  /\ device.status = "zainstalowany"
               THEN scan_respond(session_token, code, 400, "installed")
               ELSE IF get_current_user(session_token).role # "admin"
                       /\ device.status = "uszkodzony"
               THEN scan_respond(session_token, code, 400, "damaged")
               ELSE IF get_current_user(session_token).role # "admin"
                       /\ device.status = "zwrocony"
               THEN scan_respond(session_token, code, 400, "returned")
               ELSE scan_respond(session_token, code, 200, device)
    /\ UNCHANGED <<authvars, activity_logs, devvars, now, othervars>>

----------------------------------------------------------------------------
(* The store with the administrator and one worker logged in *)

Worker ==
    [user_id |-> 2, email |-> <<"w">>, password_hash |-> hash_password("secret"),
     role |-> "pracownik", created_at |-> 0, last_login_at |-> Some(0)]

LoggedIn ==
    /\ users = {[u EXCEPT !.last_login_at = Some(0)] : u \in create_default_admin}
                  \cup {Worker}
    /\ user_sessions = {[user_id |-> 1, session_token |-> 1, expires_at |-> SessionDays],
                        [user_id |-> 2, session_token |-> 2, expires_at |-> SessionDays]}
    /\ activity_logs = <<[user_id |-> 1, action_type |-> "login", device_serial |-> None],
                         [user_id |-> 2, action_type |-> "login", device_serial |-> None]>>
    /\ tasks = {}
    /\ messages = {}
    /\ backup_settings = None
    /\ backup_logs = <<>>
    /\ requests = [r \in RequestIds |-> Idle]
    /\ installations = {}
    /\ device_returns = {}
    /\ now = 0
    /\ tok_ctr = 2
    /\ uid_ctr = 2
    /\ ret_ctr = 0
    /\ issued = {<<1, 1>>, <<2, 2>>}
    /\ resp = [op |-> "login", req |-> None, status |-> 200,
               out |-> [user_id |-> 2, email |-> <<"w">>, role |-> "pracownik",
                        session_token |-> 2]]

InitDev == LoggedIn /\ devices = {}

NextScan ==
    \/ \E t \in SessionInputs, nazwa \in DeviceNames,
          numer_seryjny \in SerialInputs, kod_kreskowy \in BarcodeInputs,
          kod_qr \in QrInputs :
          add_single_device(t, nazwa, numer_seryjny, kod_kreskowy, kod_qr)
    \/ /\ ret_ctr < MaxScanReturns
       /\ \E t \in SessionInputs, device_serial \in ReturnSerialInputs,
             kind \in ReturnKindInputs :
             add_device_return(t, device_serial, kind[1], kind[2])
    \/ \E t \in SessionInputs : mark_returns_as_returned(t)
    \/ \E t \in SessionInputs, code \in ScanCodes : scan_device(t, code)

SpecScan == InitDev /\ [][NextScan]_vars

----------------------------------------------------------------------------
(* Import from a spreadsheet *)

\* a cell value as openpyxl hands it over: None, a str or a number
NoneCell == [t |-> "none"]
StrCell(s) == [t |-> "str", v |-> s]
IntCell(n) == [t |-> "int", v |-> n]

\* truth value of a cell: None, "" and 0 are false
CellTruthy(cell) ==
    \/ cell.t = "str" /\ cell.v # <<>>
    \/ cell.t = "int" /\ cell.v # 0

DigitChars == <<"0", "1", "2", "3", "4", "5", "6", "7", "8", "9">>

RECURSIVE StrOfInt(_)
StrOfInt(n) ==
    IF n < 10 THEN <<DigitChars[n + 1]>>
    ELSE StrOfInt(n \div 10) \o <<DigitChars[(n % 10) + 1]>>

\* str(cell) of a cell that is true
StrOfCell(cell) == IF cell.t = "int" THEN StrOfInt(cell.v) ELSE cell.v

\* str(row[k]) if len(row) > k and row[k] else None   (k counted from 0)
OptionalCell(row, k) ==
    IF Len(row) > k /\ CellTruthy(row[k + 1]) THEN Some(StrOfCell(row[k + 1])) ELSE None

RowInputs ==
    {<<StrCell(<<"R">>), StrCell(<<"b">>), StrCell(<<"a">>), StrCell(<<"q">>)>>,
     <<StrCell(<<"R">>), IntCell(7)>>,
     <<StrCell(<<"R">>), StrCell(<<"7">>), NoneCell, NoneCell>>,
     <<StrCell(<<"R">>)>>,
     <<StrCell(<<"R">>), NoneCell, StrCell(<<"b">>)>>,
     <<NoneCell, StrCell(<<"a">>)>>}

RECURSIVE RowSeqs(_)
RowSeqs(n) ==
    IF n = 0 THEN {<<>>}
    ELSE RowSeqs(n - 1) \cup
         {Append(rows, row) : rows \in {r \in RowSeqs(n - 1) : Len(r) = n - 1},
                              row \in RowInputs}

\* the uploaded file: its name (stem and extension) and the data rows of the
\* active sheet, the header row left out
Files ==
    {[filename |-> <<"devices", ".xlsx">>, rows |-> rows] : rows \in RowSeqs(MaxRows)}
        \cup {[filename |-> <<"devices", ".csv">>, rows |-> <<>>]}

\* the lookup against the store as the request found it
import_exists_before(store, numer_seryjny) ==
    \E d \in devices : d.numer_seryjny = numer_seryjny

\* "Check for duplicate in database": the store as the earlier rows left it
import_exists(store, numer_seryjny) ==
    \E d \in store : d.numer_seryjny = numer_seryjny

\* the loop over the rows from row i on; acc holds the store, the log and the
\* counters as the rows before i left them
RECURSIVE import_rows(_, _, _, _)
import_rows(admin, rows, i, acc) ==
    IF i > Len(rows) THEN acc
    ELSE
    LET row == rows[i]
        row_num == i + 1
    IN
    IF row = <<>> \/ ~CellTruthy(row[1]) THEN import_rows(admin, rows, i + 1, acc)
    ELSE
    LET numer_seryjny == IF OptionalCell(row, 1) = None THEN <<>>
                         ELSE OptionalCell(row, 1)[1]
    IN
    IF numer_seryjny = <<>>
    THEN import_rows(admin, rows, i + 1,
             [acc EXCEPT !.errors =
                 Append(@, [row_num |-> row_num, error |-> "no_serial"])])
    ELSE IF import_exists(acc.store, numer_seryjny)
    THEN import_rows(admin, rows, i + 1,
             [acc EXCEPT !.duplicates = @ + 1,
                         !.errors =
                 Append(@, [row_num |-> row_num, error |-> "exists"])])
    ELSE
    LET device == [device_id |-> Cardinality(acc.store) + 1,
                   nazwa |-> StrOfCell(row[1]),
                   numer_seryjny |-> numer_seryjny,
                   kod_kreskowy |-> OptionalCell(row, 2),
                   kod_qr |-> OptionalCell(row, 3),
                   przypisany_do |-> None,
                   status |-> "dostepny",
                   added_manually |-> FALSE,
                   zainstalowany_przez |-> None,
                   adres_instalacji |-> None,
     returned_at |-> None, returned_by |-> None, damaged_by |-> None]
    IN  import_rows(admin, rows, i + 1,
            [acc EXCEPT !.store = @ \cup {device},
                        !.logs = Append(@, [user_id |-> admin.user_id,
                                            action_type |-> "device_import",
                                            device_serial |-> Some(numer_seryjny)]),
                        !.imported = @ + 1])

import_devices(session_token, file) ==
    /\ Cardinality(devices) < MaxDevices
    /\ IF require_admin(session_token) # 200
       THEN /\ RespondTo("import_devices", file, require_admin(session_token), None)
            /\ UNCHANGED <<devices, activity_logs>>
       ELSE IF file.filename[2] \notin {".xlsx", ".xls"}
       THEN /\ RespondTo("import_devices", file, 400, "xlsx_only")
            /\ UNCHANGED <<devices, activity_logs>>
       ELSE LET done == import_rows(get_current_user(session_token), file.rows, 1,
                                    [store |-> devices, logs |-> activity_logs,
                                     imported |-> 0, duplicates |-> 0,
                                     errors |-> <<>>])
            IN  /\ devices' = done.store
                /\ activity_logs' = done.logs
                /\ RespondTo("import_devices", file, 200,
                             [imported |-> done.imported,
                              duplicates |-> done.duplicates,
                              errors |-> done.errors])
    /\ UNCHANGED <<authvars, installations, device_returns, ret_ctr, now, othervars>>

ImportSerialInputs == {None, Some(<<"a">>)}

\* the administrator uploads any of the files, the others one of them
ImportInputs ==
    {<<t, file>> \in SessionInputs \X Files :
        t = 1 \/ file.rows = <<>>}

NextImport ==
    \/ \E t \in SessionInputs, nazwa \in DeviceNames,
          numer_seryjny \in ImportSerialInputs, kod_kreskowy \in BarcodeInputs :
          add_single_device(t, nazwa, numer_seryjny, kod_kreskowy, None)
    \/ \E input \in ImportInputs : import_devices(input[1], input[2])

SpecImport == InitDev /\ [][NextImport]_vars

----------------------------------------------------------------------------
(* Assignment and installations *)

DeviceIds == 1..MaxDevices
DeviceIdInputs == {None} \cup {Some(id) : id \in DeviceIds}
WorkerIdInputs == {None, Some(2)}
\* adres_klienta and the legacy adres of a request body
AddressInputs ==
    {<<None, None>>, <<None, Some(<<" ", "u">>)>>, <<Some(<<" ", "u">>), None>>,
     <<Some(<<>>), Some(<<" ", "u">>)>>, <<Some(<<" ">>), None>>,
     <<Some(<<" ">>), Some(<<" ", "u">>)>>}
InstallSerialInputs == {Some(<<"a">>)}

device_with_id(device_id) == {d \in devices : d.device_id = device_id}

assign_device(session_token, device_id, worker_id) ==
    /\ Len(activity_logs) < MaxLogs
    /\ IF require_admin(session_token) # 200
       THEN /\ Respond("assign_device", require_admin(session_token), None)
            /\ UNCHANGED <<devices, activity_logs>>
       ELSE IF worker_id = None
       THEN /\ Respond("assign_device", 400, "worker_id")
            /\ UNCHANGED <<devices, activity_logs>>
       ELSE IF device_with_id(device_id) = {}
       THEN /\ Respond("assign_device", 404, None)
            /\ UNCHANGED <<devices, activity_logs>>
       ELSE \E device \in device_with_id(device_id) :
            LET updated == [device EXCEPT !.przypisany_do = worker_id,
                                          !.status = "przypisany"]
            IN  /\ devices' = (devices \ {device}) \cup {updated}
                /\ IF updated = device
                   THEN /\ Respond("assign_device", 404, None)
                        /\ UNCHANGED activity_logs
                   ELSE /\ activity_logs' =
                              log_activity(get_current_user(session_token),
                                           "device_assign", Some(device.numer_seryjny))
                        /\ Respond("assign_device", 200, None)
    /\ UNCHANGED <<authvars, installations, device_returns, ret_ctr, now, othervars>>

\* body.get("adres_klienta") or body.get("adres")
install_address(adres_klienta, adres) ==
    IF Truthy(adres_klienta) THEN adres_klienta ELSE adres

\* not adres_klienta or not adres_klienta.strip()
install_address_missing(address) ==
    ~Truthy(address) \/ Strip(address[1]) = <<>>

create_installation(session_token, device_id, adres_klienta, adres) ==
    LET user == get_current_user(session_token)
        address == install_address(adres_klienta, adres)
        request == [session_token |-> session_token, device_id |-> device_id,
                    adres_klienta |-> adres_klienta, adres |-> adres]
    IN
    /\ Cardinality(installations) < MaxInstallations
    /\ IF require_user(session_token) # 200
       THEN /\ RespondTo("create_installation", request, 401, None)
            /\ UNCHANGED <<devices, installations, activity_logs>>
       ELSE IF device_id = None
       THEN /\ RespondTo("create_installation", request, 400, "device_id")
            /\ UNCHANGED <<devices, installations, activity_logs>>
       ELSE IF install_address_missing(address)
       THEN /\ RespondTo("create_installation", request, 400, "adres_klienta")
            /\ UNCHANGED <<devices, installations, activity_logs>>
       ELSE IF device_with_id(device_id[1]) = {}
       THEN /\ RespondTo("create_installation", request, 404, None)
            /\ UNCHANGED <<devices, installations, activity_logs>>
       ELSE \E device \in device_with_id(device_id[1]) :
            IF device.przypisany_do # Some(user.user_id) /\ user.role # "admin"
            THEN /\ RespondTo("create_installation", request, 403, None)
                 /\ UNCHANGED <<devices, installations, activity_logs>>
            ELSE IF {u \in users : u.role = "admin"} = {}
            THEN /\ RespondTo("create_installation", request, 500, None)
                 /\ UNCHANGED <<devices, installations, activity_logs>>
            ELSE \E admin_user \in {u \in users : u.role = "admin"} :
                 LET installation ==
                        [installation_id |-> Cardinality(installations) + 1,
                         device_id |-> device_id[1],
                         user_id |-> user.user_id,
                         numer_seryjny |-> device.numer_seryjny,
                         data_instalacji |-> Cardinality(installations) + 1,
                         adres_klienta |-> Strip(address[1])]
                 IN  /\ installations' = installations \cup {installation}
                     /\ devices' = (devices \ {device}) \cup
                           {[device EXCEPT
                                !.status = "zainstalowany",
                                !.przypisany_do = Some(admin_user.user_id),
                                !.zainstalowany_przez = Some(user.user_id),
                                !.adres_instalacji = Some(Strip(address[1]))]}
                     /\ activity_logs' =
                           log_activity(user, "device_install",
                                        Some(device.numer_seryjny))
                     /\ RespondTo("create_installation", request, 200, installation)
    /\ UNCHANGED <<authvars, device_returns, ret_ctr, now, othervars>>

NextInstall ==
    \/ \E t \in SessionInputs, nazwa \in DeviceNames,
          numer_seryjny \in InstallSerialInputs :
          add_single_device(t, nazwa, numer_seryjny, None, None)
    \/ \E t \in SessionInputs, device_id \in DeviceIds, worker_id \in WorkerIdInputs :
          assign_device(t, device_id, worker_id)
    \/ \E t \in SessionInputs, user_id \in UserIds, new_role \in RoleInputs :
          update_user_role(t, user_id, new_role)
    \/ \E t \in SessionInputs, device_id \in DeviceIdInputs, address \in AddressInputs :
          create_installation(t, device_id, address[1], address[2])

SpecInstall == InitDev /\ [][NextInstall]_vars

----------------------------------------------------------------------------
(* Restore of an installed device *)

\* find_one({"device_id": device_id}, sort=[("data_instalacji", -1)]); the
\* time of an installation grows with every record inserted
latest_installation(device_id) ==
    {i \in installations :
        /\ i.device_id = device_id
        /\ \A j \in installations :
              j.device_id = device_id => j.data_instalacji <= i.data_instalacji}

\* the same lookup sorted the other way round
earliest_installation(device_id) ==
    {i \in installations :
        /\ i.device_id = device_id
        /\ \A j \in installations :
              j.device_id = device_id => j.data_instalacji >= i.data_instalacji}

restore_installation(device_id) == latest_installation(device_id)

restore_device(session_token, device_id) ==
    LET admin == get_current_user(session_token)
        request == [session_token |-> session_token, device_id |-> device_id]
    IN
    /\ IF require_admin(session_token) # 200
       THEN /\ RespondTo("restore_device", request, require_admin(session_token), None)
            /\ UNCHANGED devices
       ELSE IF device_with_id(device_id) = {}
       THEN /\ RespondTo("restore_device", request, 404, None)
            /\ UNCHANGED devices
       ELSE \E device \in device_with_id(device_id) :
            IF device.status # "zainstalowany"
            THEN /\ RespondTo("restore_device", request, 400, "not_installed")
                 /\ UNCHANGED devices
            ELSE \E original_installer \in
                        IF restore_installation(device_id) = {}
                        THEN {admin.user_id}
                        ELSE {i.user_id : i \in restore_installation(device_id)} :
                 LET updated == [device EXCEPT !.status = "dostepny",
                                               !.przypisany_do = Some(original_installer)]
                 IN  /\ devices' = (devices \ {device}) \cup {updated}
                     /\ IF updated = device
                        THEN RespondTo("restore_device", request, 500, None)
                        ELSE RespondTo("restore_device", request, 200,
                                       [assigned_to |-> original_installer])
    /\ UNCHANGED <<authvars, activity_logs, installations, device_returns, ret_ctr, now, othervars>>

\* a device put into the store directly as installed, without an installation
\* record (the way the test setup seeds its device)
SeededDevice ==
    [device_id |-> 1, nazwa |-> <<"R">>, numer_seryjny |-> <<"b">>,
     kod_kreskowy |-> None, kod_qr |-> None, przypisany_do |-> None,
     status |-> "zainstalowany", added_manually |-> FALSE,
     zainstalowany_przez |-> None, adres_instalacji |-> None,
     returned_at |-> None, returned_by |-> None, damaged_by |-> None]

InitRestore == LoggedIn /\ devices \in {{}, {SeededDevice}}

RestoreAddressInputs == {<<None, None>>, <<Some(<<" ", "u">>), None>>}

NextRestore ==
    \/ \E t \in SessionInputs, nazwa \in DeviceNames,
          numer_seryjny \in InstallSerialInputs :
          add_single_device(t, nazwa, numer_seryjny, None, None)
    \/ \E t \in SessionInputs, device_id \in DeviceIds, worker_id \in WorkerIdInputs :
          assign_device(t, device_id, worker_id)
    \/ \E t \in SessionInputs, device_id \in DeviceIdInputs,
          address \in RestoreAddressInputs :
          create_installation(t, device_id, address[1], address[2])
    \/ \E t \in SessionInputs, device_id \in DeviceIds : restore_device(t, device_id)

SpecRestore == InitRestore /\ [][NextRestore]_vars

----------------------------------------------------------------------------
(* Returns marked as handed back, with the clock running *)

MarkSerialInputs == {None, Some(<<"a">>), Some(<<"b">>)}
MarkKindInputs == {<<"ONT", "z awarii">>}
ElapseSteps == {3, 4}

NextMark ==
    \/ \E t \in SessionInputs, device_serial \in MarkSerialInputs,
          kind \in MarkKindInputs :
          add_device_return(t, device_serial, kind[1], kind[2])
    \/ \E t \in SessionInputs : mark_returns_as_returned(t)
    \/ \E d \in ElapseSteps : Elapse(d)

SpecMark == InitDev /\ [][NextMark]_vars

----------------------------------------------------------------------------
(* Returns: bulk add, update, delete *)

ReturnIds == 1..MaxReturns
BulkKindInputs == {<<"", "nowy/uszkodzony">>}
ReturnUpdateInputs == {<<None, None>>, <<Some("STB"), None>>}
BulkSerials == {<<"a">>, <<"b">>}

RECURSIVE BulkLists(_)
BulkLists(n) ==
    IF n = 0 THEN {<<>>}
    ELSE BulkLists(n - 1) \cup
         {Append(l, serial) : l \in {k \in BulkLists(n - 1) : Len(k) = n - 1},
                              serial \in BulkSerials}

\* the duplicate test against the entries the request found
bulk_exists_before(returns, serial) ==
    \E r \in device_returns : r.device_serial = serial /\ Pending(r)

\* "Check for duplicates": the entries as the earlier serials of the list left them
bulk_exists(returns, serial) ==
    \E r \in returns : r.device_serial = serial /\ Pending(r)

\* the same update leaving the owner in place
bulk_return_device_owned(devs, admin, serial) ==
    IF \E d \in devs : d.numer_seryjny = serial
    THEN LET device == CHOOSE d \in devs : d.numer_seryjny = serial
         IN  (devs \ {device}) \cup
                {[device EXCEPT !.status = "zwrocony",
                                !.returned_at = Some(now),
                                !.returned_by = Some(admin.user_id)]}
    ELSE devs

\* update_one({"numer_seryjny": serial}, ...) on the devices devs (serials
\* are unique in the store)
bulk_return_device(devs, admin, serial) ==
    IF \E d \in devs : d.numer_seryjny = serial
    THEN LET device == CHOOSE d \in devs : d.numer_seryjny = serial
         IN  (devs \ {device}) \cup
                {[device EXCEPT !.status = "zwrocony",
                                !.przypisany_do = None,
                                !.returned_at = Some(now),
                                !.returned_by = Some(admin.user_id)]}
    ELSE devs

\* the loop over the serials from position i on
RECURSIVE bulk_serials(_, _, _, _, _, _)
bulk_serials(admin, device_serials, device_type, device_status, i, acc) ==
    IF i > Len(device_serials) THEN acc
    ELSE
    LET serial == device_serials[i] IN
    IF bulk_exists(acc.returns, serial)
    THEN bulk_serials(admin, device_serials, device_type, device_status, i + 1,
             [acc EXCEPT !.skipped = @ + 1])
    ELSE
    LET return_entry == [return_id |-> acc.ctr + 1,
                         device_serial |-> serial,
                         device_type |-> device_type,
                         device_status |-> device_status,
                         scanned_at |-> now,
                         scanned_by |-> admin.user_id,
                         returned_to_warehouse |-> FALSE,
                         returned_at |-> None]
    IN  bulk_serials(admin, device_serials, device_type, device_status, i + 1,
            [acc EXCEPT !.returns = @ \cup {return_entry},
                        !.ctr = @ + 1,
                        !.devs = bulk_return_device(@, admin, serial),
                        !.added = @ + 1])

add_bulk_returns(session_token, device_serials, device_type, device_status) ==
    LET request == [session_token |-> session_token, device_serials |-> device_serials]
    IN
    /\ ret_ctr + Len(device_serials) <= MaxReturns
    /\ IF require_admin(session_token) # 200
       THEN /\ RespondTo("add_bulk_returns", request, require_admin(session_token), None)
            /\ UNCHANGED <<device_returns, ret_ctr, devices>>
       ELSE IF device_serials = <<>>
       THEN /\ RespondTo("add_bulk_returns", request, 400, "empty")
            /\ UNCHANGED <<device_returns, ret_ctr, devices>>
       ELSE LET done == bulk_serials(get_current_user(session_token), device_serials,
                                     device_type, device_status, 1,
                                     [returns |-> device_returns, ctr |-> ret_ctr,
                                      devs |-> devices, added |-> 0, skipped |-> 0])
            IN  /\ device_returns' = done.returns
                /\ ret_ctr' = done.ctr
                /\ devices' = done.devs
                /\ RespondTo("add_bulk_returns", request, 200,
                             [added |-> done.added, skipped |-> done.skipped])
    /\ UNCHANGED <<authvars, activity_logs, installations, now, othervars>>

delete_device_return(session_token, return_id) ==
    /\ IF require_admin(session_token) # 200
       THEN /\ Respond("delete_device_return", require_admin(session_token), None)
            /\ UNCHANGED device_returns
       ELSE /\ device_returns' = {r \in device_returns : r.return_id # return_id}
            /\ IF \E r \in device_returns : r.return_id = return_id
               THEN Respond("delete_device_return", 200, None)
               ELSE Respond("delete_device_return", 404, None)
    /\ UNCHANGED <<authvars, activity_logs, devices, installations, ret_ctr, now, othervars>>

update_device_return(session_token, return_id, device_type, device_status) ==
    LET update_data(r) ==
           [r EXCEPT !.device_type = IF device_type = None THEN @ ELSE device_type[1],
                     !.device_status = IF device_status = None THEN @
                                       ELSE device_status[1]]
    IN
    /\ IF require_admin(session_token) # 200
       THEN /\ Respond("update_device_return", require_admin(session_token), None)
            /\ UNCHANGED device_returns
       ELSE IF device_type = None /\ device_status = None
       THEN /\ Respond("update_device_return", 400, None)
            /\ UNCHANGED device_returns
       ELSE /\ device_returns' =
                  {IF r.return_id = return_id THEN update_data(r) ELSE r :
                      r \in device_returns}
            /\ IF \E r \in device_returns : r.return_id = return_id /\ update_data(r) # r
               THEN Respond("update_device_return", 200, None)
               ELSE Respond("update_device_return", 404, None)
    /\ UNCHANGED <<authvars, activity_logs, devices, installations, ret_ctr, now, othervars>>

NextReturns ==
    \/ \E t \in SessionInputs, device_serial \in MarkSerialInputs,
          kind \in MarkKindInputs :
          add_device_return(t, device_serial, kind[1], kind[2])
    \/ \E t \in SessionInputs, device_serials \in BulkLists(MaxBulk),
          kind \in BulkKindInputs :
          add_bulk_returns(t, device_serials, kind[1], kind[2])
    \/ \E t \in SessionInputs, return_id \in ReturnIds, data \in ReturnUpdateInputs :
          update_device_return(t, return_id, data[1], data[2])
    \/ \E t \in SessionInputs, return_id \in ReturnIds : delete_device_return(t, return_id)
    \/ \E t \in SessionInputs : mark_returns_as_returned(t)

SpecReturns == InitDev /\ [][NextReturns]_vars

BulkDeviceInputs == {Some(serial) : serial \in BulkSerials}

NextBulk ==
    \/ \E t \in SessionInputs, nazwa \in DeviceNames,
          numer_seryjny \in BulkDeviceInputs :
          add_single_device(t, nazwa, numer_seryjny, None, None)
    \/ \E t \in SessionInputs, device_id \in DeviceIds, worker_id \in WorkerIdInputs :
          assign_device(t, device_id, worker_id)
    \/ \E t \in SessionInputs, device_serials \in BulkLists(MaxBulk),
          kind \in BulkKindInputs :
          add_bulk_returns(t, device_serials, kind[1], kind[2])
    \/ \E t \in SessionInputs : mark_returns_as_returned(t)

SpecBulk == InitDev /\ [][NextBulk]_vars

----------------------------------------------------------------------------
(* Tasks *)

\* the str that isoformat() makes of the datetime t
isoformat(t) == [isoformat |-> t]

TaskIds == 1..MaxTasks
TaskTitles == {"T1"}
AssigneeInputs == {None, Some(2)}

\* the keys a request body of update_task may hold
TaskKeys == {"status", "title", "description", "due_date", "priority",
             "completion_photos"}
AdminTaskKeys == {"title", "description", "due_date", "priority"}

\* request bodies of update_task: the keys present and their values
TaskBodies ==
    {[k \in {} |-> "x"],
     [k \in {"status"} |-> "zakonczone"],
     [k \in {"status", "title", "priority"} |->
         CASE k = "status" -> "zakonczone" [] k = "title" -> "T2" [] OTHER -> "pilne"],
     [k \in {"completion_photos"} |-> "photo"]}

\* a fresh task id
new_task_id == 1 + Cardinality({id \in TaskIds : \E t \in tasks : t.task_id >= id})

create_task(session_token, title, assigned_to) ==
    LET admin == get_current_user(session_token) IN
    /\ Cardinality(tasks) < MaxTasks
    /\ IF require_admin(session_token) # 200
       THEN /\ Respond("create_task", require_admin(session_token), None)
            /\ UNCHANGED tasks
       ELSE LET task == [task_id |-> new_task_id,
                         title |-> title,
                         description |-> "",
                         assigned_to |-> assigned_to,
                         assigned_by |-> admin.user_id,
                         due_date |-> now,
                         status |-> "oczekujace",
                         priority |-> "normalne",
                         created_at |-> now,
                         completion_photos |-> None,
                         completed_at |-> None,
                         completed_by |-> None]
            IN  /\ tasks' = tasks \cup {task}
                /\ Respond("create_task", 200, task)
    /\ UNCHANGED <<authvars, activity_logs, devvars, now, messages, backup_settings,
                   backup_logs, requests>>

\* update_data as update_task builds it from the body: the fields to set
task_update_fields(user, body) ==
    {k \in DOMAIN body : k = "status" \/ k = "completion_photos"
                         \/ (k \in AdminTaskKeys /\ user.role = "admin")}

\* $set of update_data on a task
task_set(task, user, body) ==
    LET fields == task_update_fields(user, body) IN
    [f \in DOMAIN task |->
        IF f \in fields /\ f = "due_date" THEN now
        ELSE IF f \in fields /\ f = "completion_photos" THEN Some(body[f])
        ELSE IF f \in fields THEN body[f]
        ELSE IF f = "completed_at" /\ "completion_photos" \in fields
             THEN Some(now)
        ELSE IF f = "completed_by" /\ "completion_photos" \in fields
             THEN Some(user.user_id)
        ELSE task[f]]

update_task(session_token, task_id, body) ==
    LET user == get_current_user(session_token)
        request == [session_token |-> session_token, task_id |-> task_id, body |-> body]
    IN
    /\ IF require_user(session_token) # 200
       THEN /\ RespondTo("update_task", request, 401, None)
            /\ UNCHANGED tasks
       ELSE IF task_update_fields(user, body) = {}
       THEN \* an empty $set: refused by the server (500) or a no-op (404),
            \* depending on the MongoDB version
            /\ \E status \in {404, 500} : RespondTo("update_task", request, status, None)
            /\ UNCHANGED tasks
       ELSE /\ tasks' = {IF t.task_id = task_id THEN task_set(t, user, body) ELSE t :
                            t \in tasks}
            /\ IF \E t \in tasks : t.task_id = task_id /\ task_set(t, user, body) # t
               THEN RespondTo("update_task", request, 200, None)
               ELSE RespondTo("update_task", request, 404, None)
    /\ UNCHANGED <<authvars, activity_logs, devvars, now, messages, backup_settings,
                   backup_logs, requests>>

delete_task(session_token, task_id) ==
    /\ IF require_admin(session_token) # 200
       THEN /\ Respond("delete_task", require_admin(session_token), None)
            /\ UNCHANGED tasks
       ELSE /\ tasks' = {t \in tasks : t.task_id # task_id}
            /\ IF \E t \in tasks : t.task_id = task_id
               THEN Respond("delete_task", 200, None)
               ELSE Respond("delete_task", 404, None)
    /\ UNCHANGED <<authvars, activity_logs, devvars, now, messages, backup_settings,
                   backup_logs, requests>>

NextTasks ==
    \/ \E t \in SessionInputs, title \in TaskTitles, assigned_to \in AssigneeInputs :
          create_task(t, title, assigned_to)
    \/ \E t \in SessionInputs, task_id \in TaskIds, body \in TaskBodies :
          update_task(t, task_id, body)
    \/ \E t \in SessionInputs, task_id \in TaskIds : delete_task(t, task_id)

SpecTasks == InitDev /\ [][NextTasks]_vars

\* the statuses the task screens know, and the status values a client may send
TaskStatuses == {"oczekujace", "w_trakcie", "zakonczone"}
StatusInputs == TaskStatuses \cup {"anulowane"}
StatusBodies == {[k \in {"status"} |-> status] : status \in StatusInputs}

NextTaskStatus ==
    \/ \E t \in SessionInputs, title \in TaskTitles, assigned_to \in AssigneeInputs :
          create_task(t, title, assigned_to)
    \/ \E t \in SessionInputs, task_id \in TaskIds, body \in StatusBodies :
          update_task(t, task_id, body)
    \/ \E t \in SessionInputs, task_id \in TaskIds : delete_task(t, task_id)

SpecTaskStatus == InitDev /\ [][NextTaskStatus]_vars

----------------------------------------------------------------------------
(* Backup settings requests *)

SmtpPasswordInputs == {None, Some(""), Some(Placeholder), Some("s1"), Some("s2")}
FtpPasswordInputs == {None, Some(Placeholder), Some("f1")}
HostInputs == {None, Some("h")}
EnabledInputs == {None, Some(TRUE)}

SettingsBodies ==
    [smtp_host : HostInputs, email_enabled : EnabledInputs,
     ftp_host : {None}, ftp_enabled : {None},
     smtp_password : SmtpPasswordInputs, ftp_password : FtpPasswordInputs]

\* the body a client sends when it posts the settings it has read back
settings_as_body(settings) == [f \in DOMAIN settings |-> Some(settings[f])]

NextSettings ==
    \/ \E t \in SessionInputs : get_backup_settings(t)
    \/ \E t \in SessionInputs, data \in SettingsBodies : update_backup_settings(t, data)
    \/ /\ resp.op = "get_backup_settings"
       /\ resp.status = 200
       /\ update_backup_settings(resp.req.session_token, settings_as_body(resp.out))

SpecSettings == InitDev /\ [][NextSettings]_vars

----------------------------------------------------------------------------
(* Listings of users, messages *)

get_workers(session_token) ==
    /\ IF require_user(session_token) # 200
       THEN Respond("get_workers", require_user(session_token), None)
       ELSE Respond("get_workers", 200,
                    {without_password_hash(u) : u \in {w \in users : w.role = "pracownik"}})
    /\ UNCHANGED <<authvars, activity_logs, devvars, now, othervars>>

LowStockLimit == 4

\* device.get("kod_kreskowy") or device.get("nazwa") or "brak_kodu"
barcode_of(device) ==
    IF Truthy(device.kod_kreskowy) THEN device.kod_kreskowy[1]
    ELSE IF device.nazwa # <<>> THEN device.nazwa
    ELSE <<"b", "r", "a", "k", "_", "k", "o", "d", "u">>

\* barcode_counts.values() for the devices the handler groups
by_barcode(grouped) ==
    {[kod_kreskowy |-> barcode,
      count |-> Cardinality({d \in grouped : barcode_of(d) = barcode}),
      devices |-> {d \in grouped : barcode_of(d) = barcode}] :
     barcode \in {barcode_of(d) : d \in grouped}}

\* a limit of four that counts a group of four as low
low_stock_upto(groups) == {item \in groups : item.count <= LowStockLimit}

\* "Check for low stock (less than 4 of same barcode)"
low_stock(groups) == {item \in groups : item.count < LowStockLimit}

\* the devices of a user that the inventory groups: those assigned to them
inventory_devices(user_id) ==
    {d \in devices : d.przypisany_do = Some(user_id) /\ d.status = "przypisany"}

get_inventory_summary(session_token) ==
    /\ IF require_admin(session_token) # 200
       THEN RespondTo("get_inventory_summary", [session_token |-> session_token],
                      require_admin(session_token), None)
       ELSE RespondTo("get_inventory_summary", [session_token |-> session_token], 200,
                    {[user_id |-> usr.user_id, user_email |-> usr.email, role |-> usr.role,
                      total_devices |-> Cardinality(inventory_devices(usr.user_id)),
                      total_installed |-> Cardinality({d \in devices :
                          d.przypisany_do = Some(usr.user_id) /\ d.status = "zainstalowany"}),
                      total_damaged |-> Cardinality({d \in devices :
                          d.damaged_by = Some(usr.user_id) /\ d.status = "uszkodzony"}),
                      by_barcode |-> by_barcode(inventory_devices(usr.user_id)),
                      low_stock |-> low_stock(by_barcode(inventory_devices(usr.user_id))),
                      has_low_stock |->
                          low_stock(by_barcode(inventory_devices(usr.user_id))) # {}] :
                     usr \in {without_password_hash(u) : u \in users}})
    /\ UNCHANGED <<authvars, activity_logs, devvars, now, othervars>>

get_user_inventory(session_token, user_id) ==
    LET request == [session_token |-> session_token, user_id |-> user_id] IN
    /\ IF require_admin(session_token) # 200
       THEN RespondTo("get_user_inventory", request, require_admin(session_token), None)
       ELSE IF ~\E u \in users : u.user_id = user_id
       THEN RespondTo("get_user_inventory", request, 404, None)
       ELSE LET target_user == without_password_hash(
                                   CHOOSE u \in users : u.user_id = user_id)
                owned == {d \in devices : d.przypisany_do = Some(user_id)}
                available == {d \in owned : d.status = "przypisany"}
            IN  RespondTo("get_user_inventory", request, 200,
                        [user |-> target_user,
                         total_available |-> Cardinality(available),
                         available_devices |-> available,
                         installed_devices |-> {d \in owned : d.status = "zainstalowany"},
                         damaged_devices |-> {d \in devices :
                             d.damaged_by = Some(user_id) /\ d.status = "uszkodzony"},
                         by_barcode |-> by_barcode(available),
                         low_stock |-> low_stock(by_barcode(available)),
                         has_low_stock |-> low_stock(by_barcode(available)) # {}])
    /\ UNCHANGED <<authvars, activity_logs, devvars, now, othervars>>

send_message(session_token, content, attachment) ==
    /\ Cardinality(messages) < MaxMessages
    /\ IF require_user(session_token) # 200
       THEN /\ Respond("send_message", require_user(session_token), None)
            /\ UNCHANGED messages
       ELSE LET message == [message_id |-> Cardinality(messages) + 1,
                            sender_id |-> get_current_user(session_token).user_id,
                            content |-> content,
                            attachment |-> attachment,
                            created_at |-> now]
            IN  /\ messages' = messages \cup {message}
                /\ Respond("send_message", 200, message)
    /\ UNCHANGED <<authvars, activity_logs, devvars, now, tasks, backup_settings,
                   backup_logs, requests>>

----------------------------------------------------------------------------
(* Backup *)

\* a document without one of its fields
without_field(doc, field) == [f \in DOMAIN doc \ {field} |-> doc[f]]

\* find({}, {"_id": 0}) on users, as create_backup_data reads them
backup_users == users

\* the snapshot: installations, tasks and messages with the datetimes named
\* in the code turned into str, users and devices as they are stored
create_backup_data ==
    [created_at |-> isoformat(now),
     version |-> "1.0",
     data |->
        [users |-> backup_users,
         devices |-> devices,
         installations |->
            {[inst EXCEPT !.data_instalacji = isoformat(@)] : inst \in installations},
         tasks |->
            {[task EXCEPT !.due_date = isoformat(@), !.created_at = isoformat(@)] :
                task \in tasks},
         messages |->
            {[without_field(msg, "attachment") EXCEPT !.created_at = isoformat(@)] :
                msg \in messages}]]

\* the fields of the documents of a snapshot that still hold a datetime object
user_datetimes(u) ==
    {"created_at"} \cup (IF u.last_login_at = None THEN {} ELSE {"last_login_at"})
device_datetimes(d) == IF d.returned_at = None THEN {} ELSE {"returned_at"}
task_datetimes(t) == IF t.completed_at = None THEN {} ELSE {"completed_at"}

\* json.dumps with a default handler that turns every object into a str
json_serializable_any(backup) == TRUE

\* json.dumps(backup, ensure_ascii=False, indent=2) raises TypeError on the
\* first datetime object it meets: no default handler is given
json_serializable(backup) ==
    /\ \A u \in backup.data.users : user_datetimes(u) = {}
    /\ \A d \in backup.data.devices : device_datetimes(d) = {}
    /\ \A t \in backup.data.tasks : task_datetimes(t) = {}

json_dumps(backup) == [json |-> backup]
json_loads(text) == text.json

\* the outcome of a delivery channel of create_backup: whether it was sent
\* and the text it adds to errors; delivered is what the server answered
channel(requested, enabled, host, delivered, name) ==
    IF ~requested THEN [sent |-> FALSE, errors |-> <<>>]
    ELSE IF backup_settings # None /\ backup_settings[1][enabled]
            /\ backup_settings[1][host] # ""
    THEN IF delivered THEN [sent |-> TRUE, errors |-> <<>>]
         ELSE [sent |-> FALSE, errors |-> <<name \o ": nie udalo sie wyslac">>]
    ELSE [sent |-> FALSE, errors |-> <<name \o ": nie skonfigurowano">>]

create_backup(session_token, send_email, send_ftp, email_delivered, ftp_delivered) ==
    LET backup == create_backup_data
        request == [session_token |-> session_token, send_email |-> send_email,
                    send_ftp |-> send_ftp]
        email == channel(send_email, "email_enabled", "smtp_host", email_delivered, "Email")
        ftp == channel(send_ftp, "ftp_enabled", "ftp_host", ftp_delivered, "FTP")
        errors == email.errors \o ftp.errors
        log == [backup_id |-> Len(backup_logs) + 1,
                created_at |-> now,
                status |-> "success",
                sent_email |-> email.sent,
                sent_ftp |-> ftp.sent,
                downloaded |-> FALSE,
                error_message |-> IF errors = <<>> THEN None ELSE Some(errors)]
    IN
    /\ Len(backup_logs) < MaxBackupLogs
    /\ IF backup_guard(session_token) # 200
       THEN /\ RespondTo("create_backup", request, backup_guard(session_token), None)
            /\ UNCHANGED backup_logs
       ELSE IF ~json_serializable(backup)
       THEN /\ RespondTo("create_backup", request, 500, None)
            /\ UNCHANGED backup_logs
       ELSE /\ backup_logs' = Append(backup_logs, log)
            /\ RespondTo("create_backup", request, 200,
                         [status |-> "ok", backup_id |-> log.backup_id,
                          sent_email |-> log.sent_email, sent_ftp |-> log.sent_ftp,
                          errors |-> errors])
    /\ UNCHANGED <<authvars, activity_logs, devvars, now, tasks, messages, backup_settings, requests>>

download_backup(session_token) ==
    LET backup == create_backup_data
        request == [session_token |-> session_token]
        log == [backup_id |-> Len(backup_logs) + 1,
                created_at |-> now,
                status |-> "success",
                sent_email |-> FALSE,
                sent_ftp |-> FALSE,
                downloaded |-> TRUE,
                error_message |-> None]
    IN
    /\ Len(backup_logs) < MaxBackupLogs
    /\ IF backup_guard(session_token) # 200
       THEN /\ RespondTo("download_backup", request, backup_guard(session_token), None)
            /\ UNCHANGED backup_logs
       ELSE IF ~json_serializable(backup)
       THEN /\ RespondTo("download_backup", request, 500, None)
            /\ UNCHANGED backup_logs
       ELSE /\ backup_logs' = Append(backup_logs, log)
            /\ RespondTo("download_backup", request, 200, json_loads(json_dumps(backup)))
    /\ UNCHANGED <<authvars, activity_logs, devvars, now, tasks, messages, backup_settings, requests>>

MessageContents == {"hi"}
AttachmentInputs == {None, Some("img")}
BackupDeviceInputs == {Some(<<"a">>)}

\* request bodies that configure both channels, or the email channel only
ChannelBodies ==
    [smtp_host : {Some("h")}, email_enabled : {Some(TRUE)},
     ftp_host : {None, Some("h")}, ftp_enabled : {Some(TRUE)},
     smtp_password : {Some("s1")}, ftp_password : {None}]

NextBackup ==
    \/ \E email \in {AdminEmail}, password \in {AdminPassword} : login(email, password)
    \/ \E t \in SessionInputs : get_me(t)
    \/ \E t \in SessionInputs : get_users(t)
    \/ \E t \in SessionInputs : get_workers(t)
    \/ \E t \in SessionInputs : get_inventory_summary(t)
    \/ \E t \in SessionInputs, user_id \in UserIds : get_user_inventory(t, user_id)
    \/ \E t \in SessionInputs, numer_seryjny \in BackupDeviceInputs :
          add_single_device(t, <<"n">>, numer_seryjny, None, None)
    \/ \E t \in SessionInputs, title \in TaskTitles : create_task(t, title, Some(2))
    \/ \E t \in SessionInputs, content \in MessageContents,
          attachment \in AttachmentInputs : send_message(t, content, attachment)
    \/ \E t \in SessionInputs, data \in ChannelBodies : update_backup_settings(t, data)
    \/ \E t \in SessionInputs, send_email \in BOOLEAN, send_ftp \in BOOLEAN,
          email_delivered \in BOOLEAN, ftp_delivered \in BOOLEAN :
          create_backup(t, send_email, send_ftp, email_delivered, ftp_delivered)
    \/ \E t \in SessionInputs : download_backup(t)

SpecBackup == InitDev /\ [][NextBackup]_vars

----------------------------------------------------------------------------
(* Assignment of several devices, and the requests that write the activity log *)

\* the log after an assign-multiple that records the assignment
assign_multiple_logged(admin, device_ids) ==
    log_activity(admin, "device_assign", None)

\* the log after assign_multiple_devices: the handler never calls log_activity
assign_multiple_logs(admin, device_ids) == activity_logs

assign_multiple_devices(session_token, device_ids, worker_id) ==
    LET request == [session_token |-> session_token, device_ids |-> device_ids,
                    worker_id |-> worker_id]
    IN
    /\ IF require_admin(session_token) # 200
       THEN /\ RespondTo("assign_multiple_devices", request,
                         require_admin(session_token), None)
            /\ UNCHANGED <<devices, activity_logs>>
       ELSE IF worker_id = None
       THEN /\ RespondTo("assign_multiple_devices", request, 400, "worker_id")
            /\ UNCHANGED <<devices, activity_logs>>
       ELSE IF device_ids = {}
       THEN /\ RespondTo("assign_multiple_devices", request, 400, "device_ids")
            /\ UNCHANGED <<devices, activity_logs>>
       ELSE LET assigned(d) == [d EXCEPT !.przypisany_do = worker_id,
                                         !.status = "przypisany"]
            IN  /\ devices' = {IF d.device_id \in device_ids THEN assigned(d) ELSE d :
                                  d \in devices}
                /\ activity_logs' =
                       assign_multiple_logs(get_current_user(session_token), device_ids)
                /\ RespondTo("assign_multiple_devices", request, 200,
                             Cardinality({d \in devices : d.device_id \in device_ids
                                                          /\ assigned(d) # d}))
    /\ UNCHANGED <<authvars, installations, device_returns, ret_ctr, now, othervars>>

LogRowInputs ==
    {<<StrCell(<<"R">>), StrCell(<<"b">>)>>, <<StrCell(<<"R">>), IntCell(7)>>}

LogFiles ==
    {[filename |-> <<"devices", ".xlsx">>, rows |-> rows] :
        rows \in {<<>>} \cup {<<r>> : r \in LogRowInputs}
                 \cup {<<r1, r2>> : r1 \in LogRowInputs, r2 \in LogRowInputs}}

LogLogins == {<<AdminEmail, AdminPassword>>, <<AdminEmail, "secret">>}
LogAddresses == {<<Some(<<"u">>), None>>, <<None, None>>}

NextLog ==
    \/ \E credentials \in LogLogins : login(credentials[1], credentials[2])
    \/ \E t \in SessionInputs : get_me(t)
    \/ \E t \in SessionInputs : get_workers(t)
    \/ \E t \in SessionInputs, code \in {<<"a">>} : scan_device(t, code)
    \/ \E t \in SessionInputs, numer_seryjny \in InstallSerialInputs :
          add_single_device(t, <<"R">>, numer_seryjny, None, None)
    \/ \E t \in {1}, file \in LogFiles : import_devices(t, file)
    \/ \E t \in SessionInputs, device_id \in {1}, worker_id \in WorkerIdInputs :
          assign_device(t, device_id, worker_id)
    \/ \E t \in SessionInputs, device_ids \in {{}, {1}, {1, 2}}, worker_id \in WorkerIdInputs :
          assign_multiple_devices(t, device_ids, worker_id)
    \/ \E t \in SessionInputs, device_id \in {Some(1)}, address \in LogAddresses :
          create_installation(t, device_id, address[1], address[2])

SpecLog == InitDev /\ [][NextLog]_vars

----------------------------------------------------------------------------
(* User administration requests *)

RoleLogins == {<<AdminEmail, AdminPassword>>, <<(<<"w">>), "secret">>}

NextRoles ==
    \/ \E credentials \in RoleLogins : login(credentials[1], credentials[2])
    \/ \E t \in TokenInputs, role \in RoleInputs :
          create_user(t, <<"w">>, "secret", role)
    \/ \E t \in TokenInputs, user_id \in UserIds, new_role \in RoleInputs :
          update_user_role(t, user_id, new_role)
    \/ \E t \in TokenInputs, user_id \in UserIds : delete_user(t, user_id)

SpecRoles == Init /\ [][NextRoles]_vars

----------------------------------------------------------------------------
(* Inventory views over stores of assigned, damaged, restored and installed
   devices *)

\* what the requests before left of a device: held by the worker with or
\* without a barcode, damaged by the worker, restored to the worker, installed
InventoryKinds ==
    {[kod_kreskowy |-> Some(<<"b">>), przypisany_do |-> Some(2), status |-> "przypisany",
      damaged_by |-> None],
     [kod_kreskowy |-> None, przypisany_do |-> Some(2), status |-> "przypisany",
      damaged_by |-> None],
     [kod_kreskowy |-> Some(<<"b">>), przypisany_do |-> Some(2), status |-> "uszkodzony",
      damaged_by |-> Some(2)],
     [kod_kreskowy |-> Some(<<"b">>), przypisany_do |-> Some(2), status |-> "dostepny",
      damaged_by |-> None],
     [kod_kreskowy |-> Some(<<"b">>), przypisany_do |-> Some(1), status |-> "zainstalowany",
      damaged_by |-> None]}

inventory_device(i, kind) ==
    [device_id |-> i, nazwa |-> <<"R">>, numer_seryjny |-> StrOfInt(i),
     kod_kreskowy |-> kind.kod_kreskowy, kod_qr |-> None,
     przypisany_do |-> kind.przypisany_do, status |-> kind.status,
     added_manually |-> FALSE,
     zainstalowany_przez |-> IF kind.status = "zainstalowany" THEN Some(2) ELSE None,
     adres_instalacji |-> None,
     returned_at |-> None, returned_by |-> None, damaged_by |-> kind.damaged_by]

InventoryStores ==
    UNION {{{inventory_device(i, kinds[i]) : i \in 1..n} : kinds \in [1..n -> InventoryKinds]} :
           n \in 0..MaxStock}

InitInventory == LoggedIn /\ devices \in InventoryStores

NextInventory ==
    \/ \E t \in SessionInputs : get_inventory_summary(t)
    \/ \E t \in SessionInputs, user_id \in UserIds : get_user_inventory(t, user_id)

SpecInventory == InitInventory /\ [][NextInventory]_vars

----------------------------------------------------------------------------
(* assign_device as the steps between its awaits, for requests that run at
   the same time *)

\* the request is admitted and reads the device: find_one
assign_find(r, session_token, device_id, worker_id) ==
    LET request == [session_token |-> session_token, device_id |-> device_id,
                    worker_id |-> worker_id]
    IN
    /\ requests[r] = Idle
    /\ IF require_admin(session_token) # 200
       THEN /\ RespondTo("assign_device", request, require_admin(session_token), None)
            /\ UNCHANGED requests
       ELSE IF worker_id = None
       THEN /\ RespondTo("assign_device", request, 400, "worker_id")
            /\ UNCHANGED requests
       ELSE IF device_with_id(device_id) = {}
       THEN /\ RespondTo("assign_device", request, 404, None)
            /\ UNCHANGED requests
       ELSE \E device \in device_with_id(device_id) :
            /\ requests' = [requests EXCEPT ![r] =
                   [op |-> "assign_device", pc |-> "update", request |-> request,
                    device |-> device, modified_count |-> 0]]
            /\ RespondTo("assign_find", request, 200, None)
    /\ UNCHANGED <<authvars, activity_logs, devvars, now, tasks, messages,
                   backup_settings, backup_logs>>

\* an update that leaves the owner a device already has
assign_update_keep_owner(device, worker_id) == [device EXCEPT !.status = "przypisany"]

\* {"$set": {"przypisany_do": worker_id, "status": "przypisany"}}
assign_update_set(device, worker_id) ==
    [device EXCEPT !.przypisany_do = worker_id, !.status = "przypisany"]

\* update_one on the device as the store holds it now
assign_update(r) ==
    LET request == requests[r].request
        matched == device_with_id(request.device_id)
        updated(d) == assign_update_set(d, request.worker_id)
    IN
    /\ requests[r].op = "assign_device"
    /\ requests[r].pc = "update"
    /\ devices' = (devices \ matched) \cup {updated(d) : d \in matched}
    /\ requests' = [requests EXCEPT ![r] =
           [@ EXCEPT !.pc = "respond",
                     !.modified_count = Cardinality({d \in matched : updated(d) # d})]]
    /\ RespondTo("assign_update", request, 200, None)
    /\ UNCHANGED <<authvars, activity_logs, installations, device_returns, ret_ctr, now,
                   tasks, messages, backup_settings, backup_logs>>

\* the request ends: 404 when nothing was modified, else the log and 200
assign_respond(r) ==
    /\ requests[r].op = "assign_device"
    /\ requests[r].pc = "respond"
    /\ Len(activity_logs) < MaxLogs
    /\ IF requests[r].modified_count = 0
       THEN /\ RespondTo("assign_device", requests[r].request, 404, None)
            /\ UNCHANGED activity_logs
       ELSE /\ activity_logs' =
                  log_activity(get_current_user(requests[r].request.session_token),
                               "device_assign", Some(requests[r].device.numer_seryjny))
            /\ RespondTo("assign_device", requests[r].request, 200, None)
    /\ requests' = [requests EXCEPT ![r] = Idle]
    /\ UNCHANGED <<authvars, devvars, now, tasks, messages, backup_settings, backup_logs>>

RaceWorkerInputs == {None, Some(1), Some(2)}

NextAssignRace ==
    \/ \E t \in SessionInputs, numer_seryjny \in InstallSerialInputs :
          add_single_device(t, <<"R">>, numer_seryjny, None, None)
    \/ \E r \in RequestIds, t \in SessionInputs, device_id \in {1},
          worker_id \in RaceWorkerInputs : assign_find(r, t, device_id, worker_id)
    \/ \E r \in RequestIds : assign_update(r)
    \/ \E r \in RequestIds : assign_respond(r)

SpecAssignRace == InitDev /\ [][NextAssignRace]_vars

----------------------------------------------------------------------------
(* add_single_device as the steps between its awaits *)

\* the request is admitted and looks the serial up: find_one
add_single_check(r, session_token, nazwa, numer_seryjny, kod_kreskowy) ==
    LET request == [session_token |-> session_token, nazwa |-> nazwa,
                    numer_seryjny |-> numer_seryjny, kod_kreskowy |-> kod_kreskowy]
        serial == IF ~Truthy(numer_seryjny) THEN kod_kreskowy[1] ELSE numer_seryjny[1]
    IN
    /\ requests[r] = Idle
    /\ Cardinality(devices) < MaxDevices
    /\ IF require_admin(session_token) # 200
       THEN /\ RespondTo("add_single_device", request, require_admin(session_token), None)
            /\ UNCHANGED requests
       ELSE IF ~Truthy(numer_seryjny) /\ ~Truthy(kod_kreskowy)
       THEN /\ RespondTo("add_single_device", request, 400, "required")
            /\ UNCHANGED requests
       ELSE IF add_single_exists(serial)
       THEN /\ RespondTo("add_single_device", request, 400, "exists")
            /\ UNCHANGED requests
       ELSE /\ requests' = [requests EXCEPT ![r] =
                   [op |-> "add_single_device", pc |-> "insert", request |-> request,
                    serial |-> serial]]
            /\ RespondTo("add_single_check", request, 200, None)
    /\ UNCHANGED <<authvars, activity_logs, devvars, now, tasks, messages,
                   backup_settings, backup_logs>>

\* insert_one of the device, the log and the response
add_single_insert(r) ==
    LET request == requests[r].request
        device == [device_id |-> Cardinality(devices) + 1,
                   nazwa |-> request.nazwa,
                   numer_seryjny |-> requests[r].serial,
                   kod_kreskowy |-> IF Truthy(request.kod_kreskowy)
                                    THEN request.kod_kreskowy
                                    ELSE Some(requests[r].serial),
                   kod_qr |-> None,
                   przypisany_do |-> None,
                   status |-> "dostepny",
                   added_manually |-> TRUE,
                   zainstalowany_przez |-> None,
                   adres_instalacji |-> None,
                   returned_at |-> None, returned_by |-> None, damaged_by |-> None]
    IN
    /\ requests[r].op = "add_single_device"
    /\ requests[r].pc = "insert"
    /\ devices' = devices \cup {device}
    /\ activity_logs' = log_activity(get_current_user(request.session_token),
                                     "device_add", Some(requests[r].serial))
    /\ requests' = [requests EXCEPT ![r] = Idle]
    /\ RespondTo("add_single_device", request, 200, device)
    /\ UNCHANGED <<authvars, installations, device_returns, ret_ctr, now, tasks, messages,
                   backup_settings, backup_logs>>

RaceSerialInputs == {None, Some(<<"a">>), Some(<<"b">>)}

NextAddRace ==
    \/ \E r \in RequestIds, t \in SessionInputs, numer_seryjny \in RaceSerialInputs,
          kod_kreskowy \in BarcodeInputs :
          add_single_check(r, t, <<"R">>, numer_seryjny, kod_kreskowy)
    \/ \E r \in RequestIds : add_single_insert(r)

SpecAddRace == InitDev /\ [][NextAddRace]_vars

----------------------------------------------------------------------------
(* Damaged devices and transfers *)

mark_device_damaged(session_token, device_id) ==
    LET user == get_current_user(session_token)
        request == [session_token |-> session_token, device_id |-> device_id]
    IN
    /\ IF require_user(session_token) # 200
       THEN /\ RespondTo("mark_device_damaged", request, require_user(session_token), None)
            /\ UNCHANGED devices
       ELSE IF device_with_id(device_id) = {}
       THEN /\ RespondTo("mark_device_damaged", request, 404, None)
            /\ UNCHANGED devices
       ELSE \E device \in device_with_id(device_id) :
            IF user.role # "admin" /\ device.przypisany_do # Some(user.user_id)
            THEN /\ RespondTo("mark_device_damaged", request, 403, None)
                 /\ UNCHANGED devices
            ELSE /\ devices' = (devices \ {device}) \cup
                        {[device EXCEPT !.status = "uszkodzony",
                                        !.damaged_by = Some(user.user_id)]}
                 /\ RespondTo("mark_device_damaged", request, 200, None)
    /\ UNCHANGED <<authvars, activity_logs, installations, device_returns, ret_ctr, now,
                   othervars>>

transfer_device(session_token, device_id, worker_id) ==
    LET request == [session_token |-> session_token, device_id |-> device_id,
                    worker_id |-> worker_id]
    IN
    /\ IF require_admin(session_token) # 200
       THEN /\ RespondTo("transfer_device", request, require_admin(session_token), None)
            /\ UNCHANGED devices
       ELSE IF worker_id = None
       THEN /\ RespondTo("transfer_device", request, 400, "worker_id")
            /\ UNCHANGED devices
       ELSE IF device_with_id(device_id) = {}
       THEN /\ RespondTo("transfer_device", request, 404, "device")
            /\ UNCHANGED devices
       ELSE IF ~\E u \in users : Some(u.user_id) = worker_id
       THEN /\ RespondTo("transfer_device", request, 404, "worker")
            /\ UNCHANGED devices
       ELSE \E device \in device_with_id(device_id) :
            LET updated == [device EXCEPT !.przypisany_do = worker_id,
                                          !.status = "przypisany"]
            IN  /\ devices' = (devices \ {device}) \cup {updated}
                /\ IF updated = device
                   THEN RespondTo("transfer_device", request, 500, None)
                   ELSE RespondTo("transfer_device", request, 200, None)
    /\ UNCHANGED <<authvars, activity_logs, installations, device_returns, ret_ctr, now,
                   othervars>>

DamageAddresses == {<<Some(<<"u">>), None>>}
DamageIds == {1}
TransferWorkerInputs == {None, Some(2), Some(3)}

NextDamage ==
    \/ \E t \in SessionInputs, numer_seryjny \in InstallSerialInputs :
          add_single_device(t, <<"R">>, numer_seryjny, None, None)
    \/ \E t \in SessionInputs, device_id \in DamageIds, worker_id \in WorkerIdInputs :
          assign_device(t, device_id, worker_id)
    \/ \E t \in SessionInputs, device_ids \in {{1}}, worker_id \in WorkerIdInputs :
          assign_multiple_devices(t, device_ids, worker_id)
    \/ \E t \in SessionInputs, device_id \in DamageIds, worker_id \in TransferWorkerInputs :
          transfer_device(t, device_id, worker_id)
    \/ \E t \in SessionInputs, device_id \in DamageIds, address \in DamageAddresses :
          create_installation(t, Some(device_id), address[1], address[2])
    \/ \E t \in SessionInputs, device_id \in DamageIds : restore_device(t, device_id)
    \/ \E t \in SessionInputs, device_id \in DamageIds : mark_device_damaged(t, device_id)
    \/ \E t \in SessionInputs, device_serials \in {<<(<<"a">>)>>}, kind \in BulkKindInputs :
          add_bulk_returns(t, device_serials, kind[1], kind[2])

SpecDamage == InitDev /\ [][NextDamage]_vars

\* one assign request at a time: each request runs to its response before
\* the next is admitted
AssignIds == {1, 2}

NextAssign ==
    \/ /\ requests[1] = Idle
       /\ \E t \in SessionInputs, numer_seryjny \in InstallSerialInputs :
             add_single_device(t, <<"R">>, numer_seryjny, None, None)
    \/ \E t \in SessionInputs, device_id \in AssignIds, worker_id \in RaceWorkerInputs :
          assign_find(1, t, device_id, worker_id)
    \/ assign_update(1)
    \/ assign_respond(1)
    \/ /\ requests[1] = Idle
       /\ \E t \in SessionInputs, device_id \in AssignIds :
             mark_device_damaged(t, device_id)

SpecAssign == InitDev /\ [][NextAssign]_vars

----------------------------------------------------------------------------
(* Returns export *)

\* the user behind a token as the export looks it up: session by token, then
\* user by the session's user_id
export_session_user(session_token) ==
    IF ~\E s \in user_sessions : s.session_token = session_token THEN NoUser
    ELSE LET session == CHOOSE s \in user_sessions : s.session_token = session_token
         IN  IF \E u \in users : u.user_id = session.user_id
             THEN CHOOSE u \in users : u.user_id = session.user_id
             ELSE NoUser

\* the rows of the sheet: serial, kind, state and scan date of a pending return
export_rows ==
    {[device_serial |-> r.device_serial, device_type |-> r.device_type,
      device_status |-> r.device_status, scanned_at |-> r.scanned_at] :
        r \in {x \in device_returns : mark_filter(x)}}

\* bearer: the token of an "Authorization: Bearer ..." header, None without
\* such a header; token: the token query parameter, NoToken when absent
export_returns_excel(bearer, token) ==
    LET request == [bearer |-> bearer, token |-> token]
        from_header == IF bearer # None THEN export_session_user(bearer[1]) ELSE NoUser
        admin == IF from_header = NoUser /\ token # NoToken
                 THEN export_session_user(token)
                 ELSE from_header
    IN
    /\ IF admin = NoUser \/ admin.role # "admin"
       THEN RespondTo("export_returns_excel", request, 401, None)
       ELSE RespondTo("export_returns_excel", request, 200, export_rows)
    /\ UNCHANGED <<authvars, activity_logs, devvars, now, othervars>>

BearerInputs == {None} \cup {Some(t) : t \in SessionInputs}

ExportSerialInputs == {Some(<<"a">>)}

NextExport ==
    \/ \E t \in SessionInputs, device_serial \in ExportSerialInputs,
          kind \in MarkKindInputs :
          add_device_return(t, device_serial, kind[1], kind[2])
    \/ \E t \in SessionInputs : mark_returns_as_returned(t)
    \/ \E bearer \in BearerInputs, token \in SessionInputs :
          export_returns_excel(bearer, token)
    \/ \E t \in SessionInputs : get_me(t)
    \/ \E t \in SessionInputs : logout(t)
    \/ \E d \in ElapseSteps : Elapse(d)

SpecExport == InitDev /\ [][NextExport]_vars

----------------------------------------------------------------------------
(* Installation history *)

\* the query of get_installations: user_id of the request when it is given,
\* else the caller's own for a caller who is not an admin; data_instalacji
\* between date_from and date_to when they are given
installations_query(current_user, user_id, date_from, date_to) ==
    {i \in installations :
        /\ IF user_id # None THEN i.user_id = user_id[1]
           ELSE current_user.role # "admin" => i.user_id = current_user.user_id
        /\ date_from # None => i.data_instalacji >= date_from[1]
        /\ date_to # None => i.data_instalacji <= date_to[1]}

get_installations(session_token, user_id, date_from, date_to) ==
    LET request == [session_token |-> session_token, user_id |-> user_id,
                    date_from |-> date_from, date_to |-> date_to]
    IN
    /\ IF require_user(session_token) # 200
       THEN RespondTo("get_installations", request, require_user(session_token), None)
       ELSE RespondTo("get_installations", request, 200,
                      installations_query(get_current_user(session_token),
                                          user_id, date_from, date_to))
    /\ UNCHANGED <<authvars, activity_logs, devvars, now, othervars>>

HistoryUserInputs == {None} \cup {Some(id) : id \in UserIds}
HistoryDateInputs == {None, Some(2)}
HistoryAddresses == {<<Some(<<"u">>), None>>}

NextHistory ==
    \/ \E t \in SessionInputs, numer_seryjny \in InstallSerialInputs :
          add_single_device(t, <<"R">>, numer_seryjny, None, None)
    \/ \E t \in SessionInputs, device_id \in {1}, worker_id \in WorkerIdInputs :
          assign_device(t, device_id, worker_id)
    \/ \E t \in SessionInputs, device_id \in {1}, address \in HistoryAddresses :
          create_installation(t, Some(device_id), address[1], address[2])
    \/ \E t \in SessionInputs, user_id \in HistoryUserInputs,
          date_from \in HistoryDateInputs, date_to \in HistoryDateInputs :
          get_installations(t, user_id, date_from, date_to)

SpecHistory == InitDev /\ [][NextHistory]_vars

----------------------------------------------------------------------------
(* create_installation as the steps between its awaits *)

\* the order with the device written before the installation record
install_next_pc_update_first(pc) ==
    CASE pc = "admin" -> "update"
      [] pc = "update" -> "insert"
      [] OTHER -> "respond"

\* the store operations of create_installation in the order of the code:
\* the admin lookup, insert_one of the installation, update_one of the
\* device, then the log and the response
install_next_pc(pc) ==
    CASE pc = "admin" -> "insert"
      [] pc = "insert" -> "update"
      [] OTHER -> "respond"

\* the request is admitted, validated and reads the device: find_one
install_find(r, session_token, device_id, adres_klienta, adres) ==
    LET user == get_current_user(session_token)
        address == install_address(adres_klienta, adres)
        request == [session_token |-> session_token, device_id |-> device_id,
                    adres_klienta |-> adres_klienta, adres |-> adres]
    IN
    /\ requests[r] = Idle
    /\ IF require_user(session_token) # 200
       THEN /\ RespondTo("create_installation", request, 401, None)
            /\ UNCHANGED requests
       ELSE IF device_id = None
       THEN /\ RespondTo("create_installation", request, 400, "device_id")
            /\ UNCHANGED requests
       ELSE IF install_address_missing(address)
       THEN /\ RespondTo("create_installation", request, 400, "adres_klienta")
            /\ UNCHANGED requests
       ELSE IF device_with_id(device_id[1]) = {}
       THEN /\ RespondTo("create_installation", request, 404, None)
            /\ UNCHANGED requests
       ELSE \E device \in device_with_id(device_id[1]) :
            IF device.przypisany_do # Some(user.user_id) /\ user.role # "admin"
            THEN /\ RespondTo("create_installation", request, 403, None)
                 /\ UNCHANGED requests
            ELSE /\ requests' = [requests EXCEPT ![r] =
                        [op |-> "create_installation", pc |-> "admin",
                         request |-> request, user |-> user, device |-> device,
                         address |-> Strip(address[1]), admin_user |-> None,
                         installation |-> None]]
                 /\ RespondTo("install_find", request, 200, None)
    /\ UNCHANGED <<authvars, activity_logs, devvars, now, tasks, messages,
                   backup_settings, backup_logs>>

\* find_one({"role": "admin"})
install_admin(r) ==
    /\ requests[r].op = "create_installation"
    /\ requests[r].pc = "admin"
    /\ IF {u \in users : u.role = "admin"} = {}
       THEN /\ RespondTo("create_installation", requests[r].request, 500, None)
            /\ requests' = [requests EXCEPT ![r] = Idle]
       ELSE \E admin_user \in {u \in users : u.role = "admin"} :
            /\ requests' = [requests EXCEPT ![r] =
                   [@ EXCEPT !.pc = install_next_pc("admin"),
                             !.admin_user = Some(admin_user.user_id)]]
            /\ RespondTo("install_admin", requests[r].request, 200, None)
    /\ UNCHANGED <<authvars, activity_logs, devvars, now, tasks, messages,
                   backup_settings, backup_logs>>

\* insert_one of the installation record
install_insert(r) ==
    LET installation ==
           [installation_id |-> Cardinality(installations) + 1,
            device_id |-> requests[r].device.device_id,
            user_id |-> requests[r].user.user_id,
            numer_seryjny |-> requests[r].device.numer_seryjny,
            data_instalacji |-> Cardinality(installations) + 1,
            adres_klienta |-> requests[r].address]
    IN
    /\ requests[r].op = "create_installation"
    /\ requests[r].pc = "insert"
    /\ Cardinality(installations) < MaxInstallations
    /\ installations' = installations \cup {installation}
    /\ requests' = [requests EXCEPT ![r] =
           [@ EXCEPT !.pc = install_next_pc("insert"),
                     !.installation = Some(installation)]]
    /\ RespondTo("install_insert", requests[r].request, 200, None)
    /\ UNCHANGED <<authvars, activity_logs, devices, device_returns, ret_ctr, now,
                   tasks, messages, backup_settings, backup_logs>>

\* update_one on the device as the store holds it now
install_update(r) ==
    LET matched == device_with_id(requests[r].device.device_id)
        updated(d) == [d EXCEPT !.status = "zainstalowany",
                                !.przypisany_do = requests[r].admin_user,
                                !.zainstalowany_przez = Some(requests[r].user.user_id),
                                !.adres_instalacji = Some(requests[r].address)]
    IN
    /\ requests[r].op = "create_installation"
    /\ requests[r].pc = "update"
    /\ devices' = (devices \ matched) \cup {updated(d) : d \in matched}
    /\ requests' = [requests EXCEPT ![r] = [@ EXCEPT !.pc = install_next_pc("update")]]
    /\ RespondTo("install_update", requests[r].request, 200, None)
    /\ UNCHANGED <<authvars, activity_logs, installations, device_returns, ret_ctr, now,
                   tasks, messages, backup_settings, backup_logs>>

\* the log and the response
install_respond(r) ==
    /\ requests[r].op = "create_installation"
    /\ requests[r].pc = "respond"
    /\ Len(activity_logs) < MaxLogs
    /\ activity_logs' = log_activity(requests[r].user, "device_install",
                                     Some(requests[r].device.numer_seryjny))
    /\ RespondTo("create_installation", requests[r].request, 200,
                 requests[r].installation[1])
    /\ requests' = [requests EXCEPT ![r] = Idle]
    /\ UNCHANGED <<authvars, devvars, now, tasks, messages, backup_settings, backup_logs>>

NextInstallSteps ==
    \/ \E t \in SessionInputs, numer_seryjny \in InstallSerialInputs :
          add_single_device(t, <<"R">>, numer_seryjny, None, None)
    \/ \E t \in SessionInputs, device_id \in DamageIds, worker_id \in WorkerIdInputs :
          assign_device(t, device_id, worker_id)
    \/ \E r \in RequestIds, t \in SessionInputs, device_id \in DamageIds,
          address \in DamageAddresses :
          install_find(r, t, Some(device_id), address[1], address[2])
    \/ \E r \in RequestIds : install_admin(r)
    \/ \E r \in RequestIds : install_insert(r)
    \/ \E r \in RequestIds : install_update(r)
    \/ \E r \in RequestIds : install_respond(r)
    \/ \E t \in SessionInputs, device_id \in DamageIds : restore_device(t, device_id)

SpecInstallSteps == InitDev /\ [][NextInstallSteps]_vars

----------------------------------------------------------------------------
(* Sessions and guards *)

SessionsOf(user_id) == {s \in user_sessions : s.user_id = user_id}

\* C1: after any sequence of complete login, logout, password-reset and
\* delete-user requests every user has at most one session record; right after
\* a successful login the user has exactly one, the returned token resolves to
\* that user, and no token an earlier login issued to the same user resolves.
C1_OneSessionPerUser ==
    /\ \A s1, s2 \in user_sessions : s1.user_id = s2.user_id => s1 = s2
    /\ (resp.op = "login" /\ resp.status = 200) =>
          /\ Cardinality(SessionsOf(resp.out.user_id)) = 1
          /\ \A s \in SessionsOf(resp.out.user_id) :
                s.session_token = resp.out.session_token
          /\ get_current_user(resp.out.session_token).user_id = resp.out.user_id
          /\ \A p \in issued :
                (p[2] = resp.out.user_id /\ p[1] # resp.out.session_token)
                    => get_current_user(p[1]) = NoUser

\* a user logs in again, another user holding a session as well
C1_Witness ==
    /\ resp.op = "login" /\ resp.status = 200
    /\ \E p \in issued : p[2] = resp.out.user_id /\ p[1] # resp.out.session_token
    /\ Cardinality(user_sessions) = 2

BadCredentials(email, password) ==
    \A u \in users : u.email = Lower(email) => u.password_hash # hash_password(password)

\* C2: a login with an unknown email or a password whose hash does not match
\* fails with 401 and changes no collection: no session deleted or created, no
\* last-login field written, no activity-log record appended.
C2_FailedLoginChangesNothing ==
    [][\A email \in Emails, password \in Passwords :
          (login(email, password) /\ BadCredentials(email, password))
              => (resp'.status = 401 /\ UNCHANGED db)]_vars

\* a login was refused while a session was stored
C2_Witness ==
    /\ resp.op = "login" /\ resp.status = 401
    /\ user_sessions # {}
    /\ Len(activity_logs) > 0

\* C3: a token resolves to a user only if a session record with that token
\* exists and its expires_at is strictly later than now; no token, an unknown
\* token or a session with expires_at <= now gives 401, and the read deletes no
\* session record.
C3_ResolveFailsClosed ==
    [][\A t \in TokenInputs :
          get_me(t) =>
             /\ resp'.status = 200 =>
                   (t # NoToken /\ \E s \in user_sessions :
                                      s.session_token = t /\ s.expires_at > now)
             /\ (\/ t = NoToken
                 \/ ~\E s \in user_sessions : s.session_token = t
                 \/ \E s \in user_sessions :
                       s.session_token = t /\ s.expires_at <= now)
                   => (resp'.status = 401 /\ resp'.out = None)
             /\ user_sessions' = user_sessions]_vars

\* a read was refused at the instant a stored session expires
C3_Witness ==
    /\ resp.op = "get_me" /\ resp.status = 401
    /\ user_sessions # {}
    /\ \A s \in user_sessions : s.expires_at = now

ProtectedStep(t) ==
    \/ get_me(t)
    \/ get_users(t)
    \/ get_backup_settings(t)
    \/ \E email \in Emails, password \in Passwords, role \in RoleInputs :
          create_user(t, email, password, role)
    \/ \E user_id \in UserIds, new_password \in Passwords :
          reset_user_password(t, user_id, new_password)
    \/ \E user_id \in UserIds : delete_user(t, user_id)

AdminOnlyStep(t) ==
    \/ get_users(t)
    \/ get_backup_settings(t)
    \/ \E email \in Emails, password \in Passwords, role \in RoleInputs :
          create_user(t, email, password, role)
    \/ \E user_id \in UserIds, new_password \in Passwords :
          reset_user_password(t, user_id, new_password)
    \/ \E user_id \in UserIds : delete_user(t, user_id)

\* C4: every protected endpoint answers a request without a valid session with
\* 401, every admin-only endpoint answers an authenticated non-admin with 403,
\* and in both cases no collection is written.
C4_GuardsReject ==
    [][\A t \in TokenInputs :
          /\ (get_current_user(t) = NoUser /\ ProtectedStep(t))
                => (resp'.status = 401 /\ UNCHANGED db)
          /\ (get_current_user(t) # NoUser /\ get_current_user(t).role # "admin"
              /\ AdminOnlyStep(t))
                => (resp'.status = 403 /\ UNCHANGED db)]_vars

\* C5: an admin's reset of an existing user's password to a new password of at
\* least 6 characters succeeds and leaves no session record of that user.
C5_ResetInvalidatesSessions ==
    [][\A t \in TokenInputs, user_id \in UserIds, new_password \in Passwords :
          (/\ reset_user_password(t, user_id, new_password)
           /\ require_admin(t) = 200
           /\ \E u \in users : u.user_id = user_id
           /\ Len(new_password) >= MinPasswordLen)
              => (resp'.status = 200 /\ SessionsOf(user_id)' = {})]_vars

----------------------------------------------------------------------------
(* Scan *)

CodesOf(d) ==
    {d.numer_seryjny}
        \cup (IF d.kod_kreskowy = None THEN {} ELSE {d.kod_kreskowy[1]})
        \cup (IF d.kod_qr = None THEN {} ELSE {d.kod_qr[1]})

HasPendingReturn(d) ==
    \E r \in device_returns : r.device_serial = d.numer_seryjny /\ Pending(r)

\* code is a code of d, a case variant of one, or a longer string containing one
NamesDevice(code, d) ==
    \E k \in CodesOf(d) : code = k \/ Upper(code) = Upper(k) \/ IsSubstr(k, code)

ScanStep == resp'.op = "scan_device"

\* C6: scan(code) returns NotFound for every code that is not the serial,
\* barcode or QR code of a stored device, and for every stored device D without
\* a pending return entry an admin's scan of D's serial, barcode or QR code, of
\* a case variant or of a longer string containing one returns D.
C6_ScanFindsExactlyStoredCodes ==
    [][(ScanStep /\ require_admin(resp'.req.session_token) = 200) =>
          LET code == resp'.req.code IN
          /\ (~\E d \in devices : code \in CodesOf(d)) => resp'.status = 404
          /\ \A D \in devices :
                (~HasPendingReturn(D) /\ NamesDevice(code, D))
                    => (resp'.status = 200 /\ resp'.out = D)]_vars

\* d matches the cleaned code c: a code of d equals c or is contained in c,
\* ignoring case, or the serial of d contains c, ignoring case
Matches(d, c) ==
    \/ \E k \in CodesOf(d) :
          \/ Upper(k) = Upper(c)
          \/ k # <<>> /\ IsSubstr(Upper(k), Upper(c))
    \/ IsSubstr(Upper(c), Upper(d.numer_seryjny))

ReturnPendingFor(c) ==
    \E r \in device_returns : Upper(r.device_serial) = Upper(c) /\ Pending(r)

\* C6 (amended): an admin's scan works on the code stripped of surrounding
\* white space and of line breaks.  It answers with the returns conflict
\* exactly when a pending return entry's serial equals that code ignoring case;
\* otherwise with NotFound exactly when no stored device matches (a code of the
\* device equal to or contained in the scanned code, or the scanned code
\* contained in the device's serial, all ignoring case); otherwise it returns
\* one of the stored devices that match, hence D when D alone matches.
C6_ScanMatches ==
    [][(ScanStep /\ require_admin(resp'.req.session_token) = 200) =>
          LET c == SelectSeq(Strip(resp'.req.code), LAMBDA ch : ch \notin {"\r", "\n"})
          IN
          /\ ReturnPendingFor(c) <=> (resp'.status = 400 /\ resp'.out = "in_returns")
          /\ ~ReturnPendingFor(c) =>
                /\ resp'.status = 404 <=> ~\E d \in devices : Matches(d, c)
                /\ resp'.status # 404 =>
                      /\ resp'.status = 200
                      /\ resp'.out \in devices
                      /\ Matches(resp'.out, c)
                /\ \A D \in devices :
                      (Matches(D, c) /\ \A d \in devices : Matches(d, c) => d = D)
                          => (resp'.status = 200 /\ resp'.out = D)]_vars

\* an admin scanned a longer string that holds a code, two devices being stored
C6_Witness ==
    /\ resp.op = "scan_device" /\ resp.status = 200
    /\ resp.req = [session_token |-> 1, code |-> <<"b", "a">>]
    /\ Cardinality(devices) = 2
    /\ resp.out \in devices

\* C7: when every device the scan can resolve to has a pending return entry for
\* its serial, the scan fails with the returns conflict, for admin and worker,
\* whichever code of the device was scanned.
C7_PendingReturnBlocksScan ==
    [][(/\ ScanStep
        /\ require_user(resp'.req.session_token) = 200
        /\ scan_candidates(clean_code(resp'.req.code)) # {}
        /\ \A d \in scan_candidates(clean_code(resp'.req.code)) : HasPendingReturn(d))
           => (resp'.status = 400 /\ resp'.out = "in_returns")]_vars

----------------------------------------------------------------------------
(* Import and serial uniqueness *)

ImportStep == resp'.op = "import_devices" /\ resp'.status = 200

\* the serial a row carries, "" for a blank one
SerialOfRow(row) ==
    IF Len(row) > 1 /\ CellTruthy(row[2]) THEN StrOfCell(row[2]) ELSE <<>>

\* the data rows with a non-empty first cell
DataRows(rows) == {i \in 1..Len(rows) : rows[i] # <<>> /\ CellTruthy(rows[i][1])}

BlankRows(rows) == {i \in DataRows(rows) : SerialOfRow(rows[i]) = <<>>}

\* rows whose serial is in storage or is carried by an earlier row
DuplicateRows(rows) ==
    {i \in DataRows(rows) \ BlankRows(rows) :
        \/ \E d \in devices : d.numer_seryjny = SerialOfRow(rows[i])
        \/ \E j \in DataRows(rows) : j < i /\ SerialOfRow(rows[j]) = SerialOfRow(rows[i])}

\* C8: an import of N data rows with non-empty first cell, M of them with a
\* serial already in storage or inserted by an earlier row of the file and K
\* with a blank serial, answers imported = N - M - K and duplicates = M with
\* M + K entries in the error list, one per rejected row; it inserts exactly
\* N - M - K devices, each dostepny and without owner, and every row that is
\* neither blank nor duplicate is stored whatever rows precede it.
C8_ImportCounts ==
    [][ImportStep =>
          LET rows == resp'.req.rows
              N == Cardinality(DataRows(rows))
              M == Cardinality(DuplicateRows(rows))
              K == Cardinality(BlankRows(rows))
              out == resp'.out
          IN
          /\ out.imported = N - M - K
          /\ out.duplicates = M
          /\ Len(out.errors) = M + K
          /\ {e.row_num : e \in {out.errors[k] : k \in 1..Len(out.errors)}}
                = {i + 1 : i \in DuplicateRows(rows) \cup BlankRows(rows)}
          /\ devices \subseteq devices'
          /\ Cardinality(devices' \ devices) = N - M - K
          /\ \A d \in devices' \ devices :
                d.status = "dostepny" /\ d.przypisany_do = None
          /\ \A i \in DataRows(rows) \ (DuplicateRows(rows) \cup BlankRows(rows)) :
                \E d \in devices' \ devices : d.numer_seryjny = SerialOfRow(rows[i])
          /\ Len(activity_logs') = Len(activity_logs) + N - M - K]_vars

\* a file of three data rows was imported into a store holding serial b: the
\* first row a duplicate, the second blank, the last one stored
C8_Witness ==
    /\ resp.op = "import_devices" /\ resp.status = 200
    /\ Len(resp.req.rows) = 3
    /\ resp.out.imported = 1 /\ resp.out.duplicates = 1
    /\ Len(resp.out.errors) = 2
    /\ resp.out.errors[1].error = "exists" /\ resp.out.errors[2].error = "no_serial"
    /\ \E d \in devices : d.added_manually /\ d.numer_seryjny = <<"b">>
    /\ \E d \in devices : ~d.added_manually /\ d.numer_seryjny = <<"7">>

\* C9: after any sequence of complete import and add-single requests on a
\* store that began without duplicates, no two device records have the same
\* numer_seryjny, add-single's substitution of the barcode included.
C9_SerialsUnique ==
    \A d1, d2 \in devices : d1.numer_seryjny = d2.numer_seryjny => d1 = d2

\* add-single took the barcode b for the missing serial, and a later import
\* rejected its row with serial b and stored another device
C9_Witness ==
    /\ resp.op = "import_devices" /\ resp.status = 200
    /\ resp.out.duplicates >= 1 /\ resp.out.imported >= 1
    /\ \E d \in devices :
          d.added_manually /\ d.numer_seryjny = <<"b">> /\ d.kod_kreskowy = Some(<<"b">>)
    /\ \E d \in devices : ~d.added_manually

----------------------------------------------------------------------------
(* Installations *)

InstallStep == resp'.op = "create_installation"

NonBlank(address) == address # None /\ Strip(address[1]) # <<>>

\* C10: POST /installations with a device_id, from a signed-in caller who is
\* an admin or holds the device: with neither a non-blank adres_klienta nor a
\* non-blank legacy adres it fails with 400 and changes nothing; with a
\* non-blank address under either field name and an existing device it
\* succeeds, inserts one installation record, and leaves the device
\* zainstalowany and owned by a user holding the admin role.
C10_InstallationNeedsAddress ==
    [][(/\ InstallStep
        /\ require_user(resp'.req.session_token) = 200
        /\ resp'.req.device_id # None) =>
          LET r == resp'.req
              caller == get_current_user(r.session_token)
              found == device_with_id(r.device_id[1])
          IN
          /\ (~NonBlank(r.adres_klienta) /\ ~NonBlank(r.adres)) =>
                (resp'.status = 400 /\ UNCHANGED db)
          /\ (/\ NonBlank(r.adres_klienta) \/ NonBlank(r.adres)
              /\ found # {}
              /\ \A d \in found :
                    caller.role = "admin" \/ d.przypisany_do = Some(caller.user_id)) =>
                /\ resp'.status = 200
                /\ Cardinality(installations') = Cardinality(installations) + 1
                /\ \A d \in {x \in devices' : x.device_id = r.device_id[1]} :
                      /\ d.status = "zainstalowany"
                      /\ \E u \in users :
                            u.role = "admin" /\ d.przypisany_do = Some(u.user_id)]_vars

----------------------------------------------------------------------------
(* Restore *)

RestoreStep == resp'.op = "restore_device"

\* the installation records of a device that no other record of it is later than
MostRecentInstallation(device_id) ==
    {i \in installations :
        /\ i.device_id = device_id
        /\ ~\E j \in installations :
              j.device_id = device_id /\ j.data_instalacji > i.data_instalacji}

\* C11: restore by an admin of an existing device that is not zainstalowany
\* fails with 400 and leaves the store unchanged; of a zainstalowany device it
\* succeeds, sets the status to dostepny and the owner to the user_id of the
\* device's most recent installation record, or to the acting admin when the
\* device has no installation record, and changes nothing else.
C11_RestoreToInstaller ==
    [][(RestoreStep /\ require_admin(resp'.req.session_token) = 200) =>
          \A device \in device_with_id(resp'.req.device_id) :
             LET acting == get_current_user(resp'.req.session_token)
                 records == MostRecentInstallation(device.device_id)
             IN
             /\ device.status # "zainstalowany" =>
                   (resp'.status = 400 /\ UNCHANGED db)
             /\ device.status = "zainstalowany" =>
                   /\ resp'.status = 200
                   /\ \E owner \in IF records = {} THEN {acting.user_id}
                                   ELSE {i.user_id : i \in records} :
                         devices' = (devices \ {device}) \cup
                            {[device EXCEPT !.status = "dostepny",
                                            !.przypisany_do = Some(owner)]}
                   /\ UNCHANGED <<users, user_sessions, activity_logs,
                                  installations, device_returns>>]_vars

\* the admin restored a device installed twice, first by the worker and then
\* by the admin: it is available again and back with the admin
C11_Witness ==
    /\ resp.op = "restore_device" /\ resp.status = 200
    /\ resp.out = [assigned_to |-> 1]
    /\ \E i, j \in installations :
          /\ i.device_id = resp.req.device_id /\ j.device_id = resp.req.device_id
          /\ i.user_id = 2 /\ j.user_id = 1
          /\ i.data_instalacji < j.data_instalacji
    /\ \E d \in devices :
          /\ d.device_id = resp.req.device_id
          /\ d.status = "dostepny" /\ d.przypisany_do = Some(1)

----------------------------------------------------------------------------
(* Returns *)

MarkStep == resp'.op = "mark_returns_as_returned"

\* C12: a mark-all-returned call by an admin sets returned_to_warehouse on
\* every pending return entry, touches no other entry and reports the number
\* of entries it set; a call that follows another one immediately reports
\* count 0 and leaves the store as the first call left it, every time stamp
\* included.
C12_MarkReturnedIdempotent ==
    [][(MarkStep /\ require_admin(resp'.req.session_token) = 200) =>
          /\ resp'.status = 200
          /\ resp'.out.count = Cardinality({r \in device_returns : Pending(r)})
          /\ \A r \in device_returns' : ~Pending(r)
          /\ \A r \in device_returns : ~Pending(r) => r \in device_returns'
          /\ \A r \in device_returns : Pending(r) =>
                [r EXCEPT !.returned_to_warehouse = TRUE, !.returned_at = Some(now)]
                    \in device_returns'
          /\ Cardinality(device_returns') = Cardinality(device_returns)
          /\ UNCHANGED <<users, user_sessions, activity_logs, devices, installations>>
          /\ (resp.op = "mark_returns_as_returned" /\ resp.status = 200) =>
                (resp'.out.count = 0 /\ UNCHANGED db)]_vars

\* two entries scanned and marked at different times, and a second call right
\* after the call that marked the later one
C12_Witness ==
    /\ resp.op = "mark_returns_as_returned" /\ resp.status = 200
    /\ resp.out.count = 0
    /\ \E r1, r2 \in device_returns :
          /\ r1.returned_at # None /\ r2.returned_at # None
          /\ r1.returned_at[1] < r2.returned_at[1]
          /\ r2.returned_at[1] = now

PendingFor(serial) == {r \in device_returns : r.device_serial = serial /\ Pending(r)}

\* C13: after any sequence of complete add, bulk add, update, delete and
\* mark-returned requests no device_serial has two return entries with
\* returned_to_warehouse not true.
C13_OnePendingPerSerial ==
    \A r1, r2 \in device_returns :
        (r1.device_serial = r2.device_serial /\ Pending(r1) /\ Pending(r2)) => r1 = r2

AddReturnStep == resp'.op = "add_device_return"

\* C13 (add): an admin's add of a complete entry fails with 400 and inserts
\* nothing when a pending entry for the serial exists; otherwise, also when
\* entries of the serial exist that are all marked returned, it inserts one
\* pending entry for the serial.
C13_AddRejectsPendingSerial ==
       (/\ AddReturnStep
        /\ require_admin(resp'.req.session_token) = 200
        /\ Truthy(resp'.req.device_serial)
        /\ resp'.req.device_type # "" /\ resp'.req.device_status # "") =>
          LET serial == resp'.req.device_serial[1] IN
          /\ PendingFor(serial) # {} =>
                (resp'.status = 400 /\ UNCHANGED db)
          /\ PendingFor(serial) = {} =>
                /\ resp'.status = 200
                /\ resp'.out \notin device_returns
                /\ device_returns' = device_returns \cup {resp'.out}
                /\ resp'.out.device_serial = serial /\ Pending(resp'.out)

\* C13: one pending entry per serial, and an add that is rejected while the
\* serial is pending and accepted again once its entries are marked returned.
C13_PendingReturns ==
    [][C13_OnePendingPerSerial' /\ C13_AddRejectsPendingSerial]_vars

\* serial a was added again after its first entry was marked returned, while
\* serial b is pending
C13_Witness ==
    /\ resp.op = "add_device_return" /\ resp.status = 200
    /\ resp.out.device_serial = <<"a">>
    /\ \E r \in device_returns : r.device_serial = <<"a">> /\ ~Pending(r)
    /\ \E r \in device_returns : r.device_serial = <<"a">> /\ Pending(r)
    /\ \E r \in device_returns : r.device_serial = <<"b">> /\ Pending(r)

BulkStep == resp'.op = "add_bulk_returns"

\* the positions of a list whose serial has no pending entry and does not
\* occur earlier in the list
AddedPositions(list) ==
    {i \in 1..Len(list) :
        /\ PendingFor(list[i]) = {}
        /\ ~\E j \in 1..(i - 1) : list[j] = list[i]}

\* C14: a bulk add by an admin over a non-empty list of serials reports
\* added + skipped = length of the list, a serial being added at its first
\* occurrence when it has no pending entry and skipped otherwise; for every
\* added serial one pending entry is inserted and the device with that serial,
\* if any, gets status zwrocony and no owner; for a skipped serial no entry is
\* inserted and the device is left as it was.  An empty list is answered 400.
C14_BulkAddCounts ==
    [][(BulkStep /\ require_admin(resp'.req.session_token) = 200) =>
          LET list == resp'.req.device_serials
              added == {list[i] : i \in AddedPositions(list)}
              new == device_returns' \ device_returns
          IN
          /\ list = <<>> => (resp'.status = 400 /\ UNCHANGED db)
          /\ list # <<>> =>
                /\ resp'.status = 200
                /\ resp'.out.added = Cardinality(AddedPositions(list))
                /\ resp'.out.added + resp'.out.skipped = Len(list)
                /\ device_returns \subseteq device_returns'
                /\ Cardinality(new) = Cardinality(added)
                /\ \A serial \in added :
                      \E r \in new : r.device_serial = serial /\ Pending(r)
                /\ \A r \in new : r.device_serial \in added
                /\ Cardinality(devices') = Cardinality(devices)
                /\ \A d \in devices :
                      IF d.numer_seryjny \in added
                      THEN [d EXCEPT !.status = "zwrocony", !.przypisany_do = None,
                                     !.returned_at = Some(now),
                                     !.returned_by =
                                        Some(get_current_user(resp'.req.session_token).user_id)]
                               \in devices'
                      ELSE d \in devices'
                /\ UNCHANGED <<users, user_sessions, activity_logs, installations>>]_vars

\* a list of two serials: a was added and its device, held by the worker
\* before, is returned without owner; b was skipped, its entry being pending,
\* and its device is still with the worker
C14_Witness ==
    /\ resp.op = "add_bulk_returns" /\ resp.status = 200
    /\ resp.req.device_serials = <<"a", "b">>
    /\ resp.out = [added |-> 1, skipped |-> 1]
    /\ \E d \in devices :
          d.numer_seryjny = <<"b">> /\ d.status = "przypisany" /\ d.przypisany_do = Some(2)
    /\ \E d \in devices :
          d.numer_seryjny = <<"a">> /\ d.status = "zwrocony" /\ d.przypisany_do = None
    /\ Len(activity_logs) = 6

----------------------------------------------------------------------------
(* Tasks *)

UpdateTaskStep == resp'.op = "update_task"

AssigneeTaskFields == {"status", "completion_photos", "completed_at", "completed_by"}

\* C15: an update_task call by a signed-in user who is not an admin changes a
\* task only if the caller is the task's assignee, and then only its status
\* and completion fields; title, description, due_date and priority change
\* only when the caller is an admin.
C15_TaskUpdateByAssignee ==
    [][(UpdateTaskStep /\ require_user(resp'.req.session_token) = 200) =>
          LET caller == get_current_user(resp'.req.session_token) IN
          caller.role # "admin" =>
             \A t \in tasks : \A u \in tasks' :
                (t.task_id = u.task_id /\ t # u) =>
                   /\ t.assigned_to = Some(caller.user_id)
                   /\ \A f \in DOMAIN t : t[f] # u[f] => f \in AssigneeTaskFields]_vars

\* the half of C15 about the admin-only fields: update_task by a caller who
\* is not an admin leaves title, description, due_date and priority alone
C15_AdminOnlyFields ==
    [][(UpdateTaskStep /\ require_user(resp'.req.session_token) = 200
          /\ get_current_user(resp'.req.session_token).role # "admin") =>
          \A t \in tasks : \A u \in tasks' :
             t.task_id = u.task_id => \A f \in AdminTaskKeys : t[f] = u[f]]_vars

----------------------------------------------------------------------------
(* Backup settings *)

UpdateSettingsStep == resp'.op = "update_backup_settings" /\ resp'.status = 200

\* the password field stays out of the request or holds the placeholder
KeepsPassword(sent) == sent = None \/ sent = Some(Placeholder)

\* the update posts back what the read before it returned
PostsBack ==
    /\ resp.op = "get_backup_settings"
    /\ resp.status = 200
    /\ resp'.req.data = settings_as_body(resp.out)

\* C17: a read of the backup settings by an admin returns the placeholder
\* ******** in place of every non-empty stored smtp_password or ftp_password,
\* an update that omits a password field or sends the placeholder leaves the
\* stored password as it was, and posting back what a read returned
\* preserves both stored passwords.
C17_SettingsSecrets ==
    [][/\ (resp'.op = "get_backup_settings" /\ resp'.status = 200) =>
             \A f \in {"smtp_password", "ftp_password"} :
                /\ stored_backup_settings[f] # "" => resp'.out[f] = Placeholder
                /\ stored_backup_settings[f] = "" => resp'.out[f] = ""
       /\ UpdateSettingsStep =>
             \A f \in {"smtp_password", "ftp_password"} :
                (KeepsPassword(resp'.req.data[f]) \/ PostsBack) =>
                   stored_backup_settings'[f] = stored_backup_settings[f]]_vars

\* both passwords are stored, the settings are read and posted back
C17_Witness ==
    /\ resp.op = "update_backup_settings"
    /\ resp.status = 200
    /\ resp.req.data.smtp_password = Some(Placeholder)
    /\ resp.req.data.ftp_password = Some(Placeholder)
    /\ resp.req.data.ftp_host = Some("")
    /\ backup_settings # None
    /\ backup_settings[1].smtp_password = "s2"
    /\ backup_settings[1].ftp_password = "f1"

----------------------------------------------------------------------------
(* Password hashes in responses *)

\* the user documents a successful response carries
ResponseUsers ==
    IF resp.status # 200 THEN {}
    ELSE IF resp.op \in {"login", "get_me"} THEN {resp.out}
    ELSE IF resp.op \in {"get_users", "get_workers", "get_inventory_summary"} THEN resp.out
    ELSE IF resp.op = "get_user_inventory" THEN {resp.out.user}
    ELSE IF resp.op = "download_backup" THEN resp.out.data.users
    ELSE {}

----------------------------------------------------------------------------
(* Backup *)

BackupStep ==
    /\ resp'.op = "create_backup"
    /\ backup_guard(resp'.req.session_token) = 200

\* the outcome the claim gives a channel: sent only when requested,
\* configured and delivered, else a text in error_message when requested
ChannelFailed(requested, sent) == requested /\ ~sent

\* C18: every backup create request by an admin appends exactly one entry
\* to the backup log and is answered with status ok, whatever happens to the
\* channels it asks for: a channel that fails or is not configured has its
\* sent flag false and its text in error_message.
C18_BackupAlwaysLogged ==
    [][BackupStep =>
          /\ resp'.status = 200
          /\ resp'.out.status = "ok"
          /\ Len(backup_logs') = Len(backup_logs) + 1
          /\ SubSeq(backup_logs', 1, Len(backup_logs)) = backup_logs
          /\ LET log == backup_logs'[Len(backup_logs')]
                 failed == {c \in {"email", "ftp"} :
                               \/ c = "email" /\ ChannelFailed(resp'.req.send_email,
                                                               log.sent_email)
                               \/ c = "ftp" /\ ChannelFailed(resp'.req.send_ftp,
                                                             log.sent_ftp)}
             IN  /\ ~resp'.req.send_email => ~log.sent_email
                 /\ ~resp'.req.send_ftp => ~log.sent_ftp
                 /\ failed = {} <=> log.error_message = None
                 /\ failed # {} => Len(log.error_message[1]) = Cardinality(failed)]_vars

\* the documents of a collection of the snapshot, each without the fields
\* in secret
NonSecret(docs, secret) ==
    {[f \in DOMAIN doc \ secret |-> doc[f]] : doc \in docs}

\* the identifiers of the documents of a collection
Ids(docs, key) == {doc[key] : doc \in docs}

SnapshotRoundTrips ==
    LET backup == create_backup_data IN
    /\ json_serializable(backup)
    /\ LET restored == json_loads(json_dumps(backup)).data IN
       /\ NonSecret(restored.users, {"password_hash"})
             = NonSecret(users, {"password_hash"})
       /\ restored.devices = devices
       /\ Ids(restored.installations, "installation_id")
             = Ids(installations, "installation_id")
       /\ Ids(restored.tasks, "task_id") = Ids(tasks, "task_id")
       /\ Ids(restored.messages, "message_id") = Ids(messages, "message_id")
       /\ \A msg \in restored.messages : "attachment" \notin DOMAIN msg

\* C19: for every content of the store the snapshot of create_backup_data
\* can be serialized to JSON and read back, and what is read back holds every
\* user, device, installation, task and message of the store, the messages
\* without their attachment.
C19_SnapshotRoundTrip ==
    [][(resp'.op \in {"create_backup", "download_backup"}
          /\ backup_guard(resp'.req.session_token) = 200) => SnapshotRoundTrips]_vars

----------------------------------------------------------------------------
(* Activity log *)

ReadOnlyOps == {"get_me", "get_workers", "scan_device"}

\* the requests that, answered 200, write one record
LoggedOps == {"login", "add_single_device", "assign_device", "create_installation"}

Appended(n) ==
    /\ Len(activity_logs') = Len(activity_logs) + n
    /\ SubSeq(activity_logs', 1, Len(activity_logs)) = activity_logs

\* C20: the activity log only grows, at its end, and the records it holds
\* never change; a successful login, add-single, single assign and
\* installation each append exactly one record and an import one record for
\* each imported row; assign-multiple and the read-only endpoints append none.
C20_ActivityLogAppendOnly ==
    [][/\ Len(activity_logs') >= Len(activity_logs)
       /\ SubSeq(activity_logs', 1, Len(activity_logs)) = activity_logs
       /\ (resp'.op \in LoggedOps /\ resp'.status = 200) => Appended(1)
       /\ (resp'.op = "import_devices" /\ resp'.status = 200) =>
             Appended(resp'.out.imported)
       /\ resp'.op \in ReadOnlyOps \cup {"assign_multiple_devices"} => Appended(0)]_vars

\* an admin assigns two devices at once, after an import of two rows had
\* written two records
C20_Witness ==
    /\ resp.op = "assign_multiple_devices"
    /\ resp.status = 200
    /\ resp.out = 2
    /\ Len(activity_logs) = 4
    /\ activity_logs[3].action_type = "device_import"
    /\ activity_logs[4].action_type = "device_import"

----------------------------------------------------------------------------
(* Users and roles *)

\* the half of C21 about the values of role: every stored user is an admin
\* or a pracownik
C21_RolesValid == \A u \in users : u.role \in Roles

\* C21: from a store that holds an admin, after any sequence of create-user,
\* update-role and delete-user requests a user with role admin exists and
\* every user's role is admin or pracownik.
C21_AdminRemains ==
    /\ \E u \in users : u.role = "admin"
    /\ \A u \in users : u.role \in Roles

----------------------------------------------------------------------------
(* Inventory *)

\* the barcode of a device, else its name, else the bucket brak_kodu
GroupKey(d) ==
    IF d.kod_kreskowy # None /\ d.kod_kreskowy[1] # <<>> THEN d.kod_kreskowy[1]
    ELSE IF d.nazwa # <<>> THEN d.nazwa
    ELSE <<"b", "r", "a", "k", "_", "k", "o", "d", "u">>

\* the groups of a view are the devices in D split by GroupKey, low_stock is
\* the groups of fewer than four units, has_low_stock tells whether any exists
GroupsOf(view, D) ==
    /\ UNION {g.devices : g \in view.by_barcode} = D
    /\ \A g \in view.by_barcode :
          /\ g.devices # {}
          /\ g.count = Cardinality(g.devices)
          /\ \A d \in D : d \in g.devices <=> GroupKey(d) = g.kod_kreskowy
    /\ view.low_stock = {g \in view.by_barcode : g.count < 4}
    /\ view.has_low_stock <=> view.low_stock # {}

\* the views a response holds, each with the user it is about
InventoryViews ==
    IF resp.status # 200 THEN {}
    ELSE IF resp.op = "get_inventory_summary"
    THEN {<<view.user_id, view>> : view \in resp.out}
    ELSE IF resp.op = "get_user_inventory" THEN {<<resp.req.user_id, resp.out>>}
    ELSE {}

OwnedBy(user_id) == {d \in devices : d.przypisany_do = Some(user_id)}

\* C22 as stated: both inventory views group every device the user owns
\* whose status is not zainstalowany.
C22_GroupsNonInstalled ==
    \A v \in InventoryViews :
       GroupsOf(v[2], {d \in OwnedBy(v[1]) : d.status # "zainstalowany"})

\* C22, amended: both inventory views group the devices the user owns whose
\* status is przypisany by barcode, else name, else brak_kodu; low_stock is
\* exactly the groups of fewer than 4 units and has_low_stock is true exactly
\* when low_stock is not empty.
C22_GroupsAssigned ==
    \A v \in InventoryViews :
       GroupsOf(v[2], {d \in OwnedBy(v[1]) : d.status = "przypisany"})

\* the worker holds four devices of one barcode: a group that is not low
C22_Witness ==
    /\ resp.op = "get_inventory_summary"
    /\ resp.status = 200
    /\ \E view \in resp.out :
          /\ view.user_id = 2
          /\ \E g \in view.by_barcode : g.count = 4
          /\ ~view.has_low_stock

----------------------------------------------------------------------------
(* Requests that run at the same time *)

\* C24: two requests that create a device with the same serial run with
\* their duplicate check and their insert interleaved: at most one of them
\* inserts, so no two devices with the same numer_seryjny ever exist.
C24_NoDuplicateSerialUnderRace ==
    \A d \in devices : \A e \in devices :
       d.numer_seryjny = e.numer_seryjny => d.device_id = e.device_id

\* request r stands before its update_one
BeforeUpdate(r) == requests[r].op = "assign_device" /\ requests[r].pc = "update"

AssignUpdateStep(r) == BeforeUpdate(r) /\ requests'[r].pc = "respond"

\* C23: two assign requests for one device run with their steps interleaved:
\* a request that stands before its update can always take it, whatever the
\* position of the other, and each update that is applied leaves the device
\* with status przypisany and the worker of that update as owner, so after
\* both the owner is the worker of the update applied last.
C23_LastAssignWins ==
    [][\A r \in RequestIds :
          /\ BeforeUpdate(r) => ENABLED assign_update(r)
          /\ AssignUpdateStep(r) =>
                \A d \in devices' :
                   d.device_id = requests[r].request.device_id =>
                      /\ d.status = "przypisany"
                      /\ d.przypisany_do = requests[r].request.worker_id]_vars

\* both requests read the device before either wrote; the update of the
\* second, for worker 1, is applied after the one of the first, for worker 2
C23_Witness ==
    /\ requests[1].op = "assign_device" /\ requests[1].pc = "respond"
    /\ requests[2].op = "assign_device" /\ requests[2].pc = "respond"
    /\ requests[1].request.worker_id = Some(2)
    /\ requests[2].request.worker_id = Some(1)
    /\ requests[1].device.przypisany_do = None
    /\ requests[2].device.przypisany_do = None
    /\ requests[1].modified_count = 1
    /\ requests[2].modified_count = 1
    /\ \E d \in devices : d.device_id = 1 /\ d.przypisany_do = Some(1)

----------------------------------------------------------------------------
(* Damaged devices *)

\* the half of C25 about the way into uszkodzony: a device becomes damaged
\* only from przypisany or zainstalowany
C25_DamagedOnlyFromHeld ==
    [][\A d \in devices : \A e \in devices' :
          (d.device_id = e.device_id /\ e.status = "uszkodzony"
             /\ d.status # "uszkodzony") =>
                d.status \in {"przypisany", "zainstalowany"}]_vars

\* C25: a device becomes uszkodzony only from przypisany or zainstalowany,
\* and a device that is uszkodzony keeps that status until a bulk return
\* sets it to zwrocony: no assign, assign-multiple, transfer, installation,
\* restore or mark-damaged request gives it another status.
C25_DamagedUntilReturned ==
    [][\A d \in devices : \A e \in devices' :
          d.device_id = e.device_id =>
             /\ (e.status = "uszkodzony" /\ d.status # "uszkodzony") =>
                   d.status \in {"przypisany", "zainstalowany"}
             /\ (d.status = "uszkodzony" /\ e.status # "uszkodzony") =>
                   (e.status = "zwrocony" /\ resp'.op = "add_bulk_returns")]_vars

----------------------------------------------------------------------------
(* Task statuses *)

\* C26: every stored task has a status in {oczekujace, w_trakcie,
\* zakonczone}: create_task stores oczekujace and update_task never stores
\* a status outside the set.
C26_TaskStatusInSet == \A task \in tasks : task.status \in TaskStatuses

----------------------------------------------------------------------------
(* Returns export *)

\* the tokens an export request carries
ExportTokens(request) ==
    (IF request.bearer # None THEN {request.bearer[1]} ELSE {}) \cup {request.token}

\* the half of C27 without the expiry: an export that answers 200 carries
\* the token of a stored session whose user is an admin
C27_ExportNeedsAdminSession ==
    [][(resp'.op = "export_returns_excel" /\ resp'.status = 200) =>
          \E t \in ExportTokens(resp'.req) :
              export_session_user(t).role = "admin"]_vars

\* C27: the export answers 200 only if the bearer header or the token query
\* parameter carries the token of an existing session that has not expired
\* and belongs to an admin; an expired token is rejected as the other
\* endpoints reject it.
C27_ExportNeedsLiveAdminSession ==
    [][(resp'.op = "export_returns_excel" /\ resp'.status = 200) =>
          \E t \in ExportTokens(resp'.req) :
              get_current_user(t).role = "admin"]_vars

----------------------------------------------------------------------------
(* Assign: not found *)

\* an assign request of an admin with a worker_id has been answered
AssignAnswered ==
    /\ resp'.op = "assign_device"
    /\ resp'.req.worker_id # None
    /\ require_admin(resp'.req.session_token) = 200

\* the part of C28 the handler keeps: a request for a missing device is
\* answered 404, and after a request for an existing device the device has
\* owner worker_id and status przypisany
C28_AssignSetsOwner ==
    [][AssignAnswered =>
          IF device_with_id(resp'.req.device_id) = {}
          THEN resp'.status = 404
          ELSE \A d \in device_with_id(resp'.req.device_id) :
                  d.przypisany_do = resp'.req.worker_id /\ d.status = "przypisany"]_vars

\* C28: an assign request with a non-empty worker_id is answered 404 if and
\* only if no device has the device_id; for an existing device, whatever its
\* owner and status, it succeeds and leaves the device with owner worker_id
\* and status przypisany.
C28_AssignNotFoundIffMissing ==
    [][AssignAnswered =>
          /\ resp'.status = 404 <=> device_with_id(resp'.req.device_id) = {}
          /\ device_with_id(resp'.req.device_id) # {} =>
                /\ resp'.status = 200
                /\ \A d \in device_with_id(resp'.req.device_id) :
                      d.przypisany_do = resp'.req.worker_id
                         /\ d.status = "przypisany"]_vars

----------------------------------------------------------------------------
(* Installation history *)

\* a caller who is not an admin has been given a list of installations
WorkerHistoryAnswered ==
    /\ resp'.op = "get_installations"
    /\ resp'.status = 200
    /\ get_current_user(resp'.req.session_token).role # "admin"

\* the part of C29 that holds: without a user_id parameter a caller who is
\* not an admin is given installations of their own only
C29_OwnInstallationsByDefault ==
    [][(WorkerHistoryAnswered /\ resp'.req.user_id = None) =>
          \A i \in resp'.out :
             i.user_id = get_current_user(resp'.req.session_token).user_id]_vars

\* C29: every installation GET /installations returns to a caller who is not
\* an admin has the caller's user_id, whatever query parameters, user_id
\* among them, the caller sends.
C29_OwnInstallationsOnly ==
    [][WorkerHistoryAnswered =>
          \A i \in resp'.out :
             i.user_id = get_current_user(resp'.req.session_token).user_id]_vars

----------------------------------------------------------------------------
(* Installation records *)

\* every installed device has an installation record
InstalledHasRecord ==
    \A d \in devices :
       d.status = "zainstalowany" => \E i \in installations : i.device_id = d.device_id

\* a step keeps every installation record as it is
InstallationsKept == \A i \in installations : i \in installations'

\* C30: in every reachable state, the states in which a create-installation
\* request stands between two of its steps among them, every device with
\* status zainstalowany has an installation record with its device_id, and
\* no step changes or removes an installation record.
C30_InstalledHasRecord == []InstalledHasRecord /\ [][InstallationsKept]_vars

\* one request has inserted its record and not yet written the device, while
\* the other has written the device: the device is installed with two records
C30_Witness ==
    /\ requests[1].op = "create_installation" /\ requests[1].pc = "update"
    /\ requests[2].op = "create_installation" /\ requests[2].pc = "respond"
    /\ Cardinality(installations) = 2
    /\ \E d \in devices : d.status = "zainstalowany"

====
